---- MODULE Spec2Model ----
(***************************************************************************)
(* A model of the dispatch engine of dlls/mshtml/dispex.c: the compiled    *)
(* member tables and their cache, the dynamic property store with its      *)
(* prototype references, the argument marshalling of builtin methods and   *)
(* the IDispatchEx router (GetDispID, GetMemberName, InvokeEx,             *)
(* DeleteMemberByDispID, GetNextDispID).                                   *)
(*                                                                         *)
(* Strings are sequences of character codes, so that wcscmp and wcsicmp    *)
(* are computed as the C library computes them.  A DISPID is a 32-bit      *)
(* signed integer.                                                         *)
(***************************************************************************)
EXTENDS Integers, Sequences, FiniteSets, TLC

VARIABLES
    info_cache,   \* desc->info_cache[compat_mode]: NULL or the table published there
    built,        \* per (desc, compat_mode): the tables preprocess_dispex_data returned
    cs_owner,     \* cs_dispex_static_data: free, or the thread that holds it
    pc,           \* per thread: its position in ensure_dispex_info
    call,         \* per thread: the (desc, compat_mode) of the call in progress
    returned,     \* per (desc, compat_mode): the non-NULL pointers calls have returned
    objs,         \* the DispatchEx objects: info, prototype, dynamic_data
    last,         \* the most recent router call on an object and its result
    inv           \* the most recent invoke_builtin_function call and what it forwarded

cacheVars == <<info_cache, built, cs_owner, pc, call, returned>>
dispVars  == <<objs, last>>
vars == <<info_cache, built, cs_owner, pc, call, returned, objs, last, inv>>


(***************************************************************************)
(* 32-bit arithmetic and the C string comparisons.                         *)
(***************************************************************************)
\* a - b as a 32-bit int computes it: the difference modulo 2^32, taken into
\* [-2^31, 2^31).  The cases keep every intermediate value inside that range.
Sub32(a, b) ==
    IF a >= 0 /\ b < 0 /\ a > 2147483647 + b
    THEN (a - 2147483647 - 1) - (b + 2147483647 + 1)
    ELSE IF a < 0 /\ b >= 0 /\ a < b - 2147483647 - 1
    THEN (a + 2147483647 + 1) - (b - 2147483647 - 1)
    ELSE a - b

towlower(c) == IF c >= 65 /\ c <= 90 THEN c + 32 ELSE c

RECURSIVE StrCmpFrom(_, _, _, _)
StrCmpFrom(fold, a, b, i) ==
    IF i > Len(a) /\ i > Len(b) THEN 0
    ELSE IF i > Len(a) THEN -1
    ELSE IF i > Len(b) THEN 1
    ELSE LET x == IF fold THEN towlower(a[i]) ELSE a[i]
             y == IF fold THEN towlower(b[i]) ELSE b[i]
         IN  IF x < y THEN -1
             ELSE IF x > y THEN 1
             ELSE StrCmpFrom(fold, a, b, i + 1)

wcscmp(a, b) == StrCmpFrom(FALSE, a, b, 1)
wcsicmp(a, b) == StrCmpFrom(TRUE, a, b, 1)

(***************************************************************************)
(* Identifier spaces.                                                      *)
(***************************************************************************)
DISPID_DYNPROP_0 == 1342177280
DISPID_DYNPROP_MAX == 1610612735
\* mshtml_private.h is not part of the sources; the custom range is the one
\* legacy_ctor_get_dispid hands out, directly above the dynamic range.
MSHTML_DISPID_CUSTOM_MIN == 1610612736
MSHTML_DISPID_CUSTOM_MAX == 1879048191
DISPID_STARTENUM == -1
DISPID_VALUE == 0

is_custom_dispid(id) == MSHTML_DISPID_CUSTOM_MIN <= id /\ id <= MSHTML_DISPID_CUSTOM_MAX

is_dynamic_dispid(id) == DISPID_DYNPROP_0 <= id /\ id <= DISPID_DYNPROP_MAX

get_dispid_type(id) ==
    IF is_dynamic_dispid(id) THEN "DISPEXPROP_DYNAMIC"
    ELSE IF is_custom_dispid(id) THEN "DISPEXPROP_CUSTOM"
    ELSE "DISPEXPROP_BUILTIN"

(***************************************************************************)
(* VARIANTs and the types the native call path supports.                   *)
(***************************************************************************)
Variant(vt, val) == [vt |-> vt, val |-> val]
VEmpty == Variant("VT_EMPTY", 0)

\* BUILTIN_ARG_TYPES_SWITCH
is_arg_type_supported(vt) ==
    vt \in {"VT_I2", "VT_UI2", "VT_I4", "VT_UI4", "VT_R4", "VT_BSTR", "VT_DISPATCH", "VT_BOOL"}

(***************************************************************************)
(* The Reflection Provider (the type library): for each interface tag the  *)
(* FUNCDESCs that follow the seven IDispatch functions.  The engine only   *)
(* reads it; what it holds is the environment's choice.                    *)
(***************************************************************************)
n_area   == <<97, 114, 101, 97>>
n_Area   == <<65, 114, 101, 97>>
n_tag    == <<116, 97, 103>>
n_size   == <<115, 105, 122, 101>>
n_color  == <<99, 111, 108, 111, 114>>
n_secret == <<115, 101, 99, 114, 101, 116>>
n_scale  == <<115, 99, 97, 108, 101>>
n_draw   == <<100, 114, 97, 119>>
n_hi     == <<104, 105>>
n_lo     == <<108, 111>>
n_title  == <<116, 105, 116, 108, 101>>
n_body   == <<98, 111, 100, 121>>

Param(vt, userdefined, has_default, def) ==
    [vt |-> vt, userdefined |-> userdefined, has_default |-> has_default, default_value |-> def]
PlainParam(vt) == Param(vt, FALSE, FALSE, VEmpty)

FuncDesc(memid, name, invkind, flags, ret, params, opt, slot) ==
    [memid |-> memid, name |-> name, invkind |-> invkind, wFuncFlags |-> flags,
     elemdescFunc |-> ret, lprgelemdescParam |-> params, cParams |-> Len(params),
     cParamsOpt |-> opt, oVft |-> slot]

IWidget_tid == "IWidget"
IShape_tid  == "IShape"
IShape2_tid == "IShape2"
IFar_tid    == "IFar"
IDoc_tid    == "IDoc"
Tids == {IWidget_tid, IShape_tid, IShape2_tid, IFar_tid, IDoc_tid}

TypeInfo(tid) ==
    CASE tid = IWidget_tid ->
           << FuncDesc(1, n_area, "DISPATCH_METHOD", {}, "VT_I4",
                       << PlainParam("VT_I4"), PlainParam("VT_I4"),
                          Param("VT_I4", FALSE, TRUE, Variant("VT_I4", 0)) >>, 0, 7) >>
      [] tid = IShape_tid ->
           << FuncDesc(2, n_tag, "DISPATCH_PROPERTYGET", {}, "VT_BSTR", <<>>, 0, 8),
              FuncDesc(2, n_tag, "DISPATCH_PROPERTYPUT", {}, "VT_VOID",
                       << PlainParam("VT_BSTR") >>, 0, 9),
              FuncDesc(3, n_Area, "DISPATCH_PROPERTYGET", {}, "VT_I4", <<>>, 0, 10),
              FuncDesc(4, n_draw, "DISPATCH_METHOD", {}, "VT_VOID",
                       << Param("VT_PTR", TRUE, FALSE, VEmpty),
                          Param("VT_BSTR", FALSE, TRUE, Variant("VT_BSTR", 1)) >>, 0, 11),
              FuncDesc(5, n_secret, "DISPATCH_PROPERTYGET", {"FUNCFLAG_FHIDDEN"}, "VT_I4",
                       <<>>, 0, 12),
              FuncDesc(8, n_size, "DISPATCH_METHOD", {"FUNCFLAG_FRESTRICTED"}, "VT_VOID",
                       <<>>, 0, 13) >>
      [] tid = IShape2_tid ->
           << FuncDesc(9, n_area, "DISPATCH_METHOD", {}, "VT_VOID", <<>>, 0, 7),
              FuncDesc(2, n_size, "DISPATCH_PROPERTYGET", {}, "VT_I4", <<>>, 0, 8),
              FuncDesc(6, n_color, "DISPATCH_PROPERTYGET", {}, "VT_BSTR", <<>>, 0, 9),
              FuncDesc(7, n_scale, "DISPATCH_METHOD", {}, "VT_I4",
                       << PlainParam("VT_I4"), PlainParam("VT_VARIANT") >>, 1, 10) >>
      [] tid = IFar_tid ->
           << FuncDesc(1879048192, n_hi, "DISPATCH_PROPERTYGET", {}, "VT_I4", <<>>, 0, 7),
              FuncDesc(-2147418112, n_lo, "DISPATCH_PROPERTYGET", {}, "VT_I4", <<>>, 0, 8) >>
      [] tid = IDoc_tid ->
           << FuncDesc(12, n_title, "DISPATCH_PROPERTYGET", {}, "VT_BSTR", <<>>, 0, 7),
              FuncDesc(11, n_body, "DISPATCH_PROPERTYGET", {}, "VT_I4", <<>>, 0, 8) >>

(***************************************************************************)
(* func_info_t and add_func_info.                                          *)
(***************************************************************************)
\* A func_info_t as calloc leaves it.
ZeroFunc ==
    [id |-> 0, name |-> <<>>, tid |-> "", hook |-> FALSE,
     call_vtbl_off |-> 0, put_vtbl_off |-> 0, get_vtbl_off |-> 0,
     func_disp_idx |-> 0, argc |-> 0, default_value_cnt |-> 0,
     prop_vt |-> "VT_EMPTY", arg_types |-> <<>>, arg_info |-> <<>>]

ArgInfo(iid, def) == [iid |-> iid, default_value |-> def]
IID_NULL == "IID_NULL"
\* The interface a VT_PTR -> VT_USERDEFINED parameter names.
IID_Target == "IID_Target"

\* The index of the first entry with the identifier or (case-exactly) the name, or 0.
FindDup(funcs, memid, name) ==
    LET hits == {i \in 1..Len(funcs) : funcs[i].id = memid \/ wcscmp(funcs[i].name, name) = 0}
    IN  IF hits = {} THEN 0 ELSE CHOOSE i \in hits : \A j \in hits : i <= j

\* The loop over the parameters of a method, from parameter i on; done is TRUE
\* when it ran to its end, FALSE when it returned early (fallback to ITypeInfo).
RECURSIVE FillArgs(_, _, _)
FillArgs(info, desc, i) ==
    IF i > info.argc THEN [info |-> info, done |-> TRUE]
    ELSE LET p == desc.lprgelemdescParam[i]
         IN  IF p.vt = "VT_PTR" /\ p.userdefined
             THEN LET w == [info EXCEPT !.arg_info[i].iid = IID_Target,
                                        !.arg_types[i] = "VT_DISPATCH"]
                      x == IF p.has_default
                           THEN [w EXCEPT !.arg_info[i].default_value = p.default_value,
                                          !.default_value_cnt = @ + 1]
                           ELSE w
                  IN  FillArgs(x, desc, i + 1)
             ELSE IF ~is_arg_type_supported(info.arg_types[i])
             THEN [info |-> info, done |-> FALSE]
             ELSE LET x == IF p.has_default
                           THEN [info EXCEPT !.arg_info[i].default_value = p.default_value,
                                             !.default_value_cnt = @ + 1]
                           ELSE info
                  IN  FillArgs(x, desc, i + 1)

\* No return type sends a method to ITypeInfo::Invoke.
ReturnTypeNeverFallsBack(vt) == FALSE

\* The test of line 425: a return type the native call cannot hand back.
ReturnTypeFallsBack(vt) ==
    vt # "VT_VOID" /\ vt # "VT_PTR" /\ ~is_arg_type_supported(vt)

\* The DISPATCH_METHOD branch: info is the entry, cnt is data->func_disp_cnt.
AddMethod(info, desc, cnt) ==
    LET a == [info EXCEPT !.func_disp_idx = cnt,
                          !.argc = desc.cParams,
                          !.arg_info = [i \in 1..desc.cParams |-> ArgInfo(IID_NULL, VEmpty)],
                          !.prop_vt = desc.elemdescFunc]
    IN  IF ReturnTypeFallsBack(a.prop_vt)
        THEN a
        ELSE LET b == [a EXCEPT !.arg_types =
                          [i \in 1..desc.cParams |-> desc.lprgelemdescParam[i].vt]]
             IN  IF desc.cParamsOpt # 0 THEN b
                 ELSE LET r == FillArgs(b, desc, 1)
                      IN  IF r.done THEN [r.info EXCEPT !.call_vtbl_off = desc.oVft]
                          ELSE r.info

\* The DISPATCH_PROPERTYGET / DISPATCH_PROPERTYPUT branch.
AddProperty(info, desc) ==
    LET a == IF "FUNCFLAG_FHIDDEN" \in desc.wFuncFlags
             THEN [info EXCEPT !.func_disp_idx = -2] ELSE info
    IN  IF desc.invkind = "DISPATCH_PROPERTYGET"
        THEN [a EXCEPT !.get_vtbl_off = desc.oVft, !.prop_vt = desc.elemdescFunc]
        ELSE [a EXCEPT !.put_vtbl_off = desc.oVft,
                       !.prop_vt = desc.lprgelemdescParam[1].vt]

\* The entry found is taken for the interface's own whatever its tid.
NeverDuplicated(funcs, k, tid) == FALSE

\* TRUE when the entry found at index k belongs to another interface.
DuplicatedInOtherInterface(funcs, k, tid) == k # 0 /\ funcs[k].tid # tid

\* data is [funcs, func_disp_cnt]; hook is the hook's invoke (a flag here) and
\* name_override its name (<<>> for NULL).
add_func_info(data, tid, desc, hook, name_override) ==
    IF name_override = <<>> /\ "FUNCFLAG_FRESTRICTED" \in desc.wFuncFlags THEN data
    ELSE
    LET name == IF name_override # <<>> THEN name_override ELSE desc.name
        k    == FindDup(data.funcs, desc.memid, name)
    IN  IF DuplicatedInOtherInterface(data.funcs, k, tid) THEN data
        ELSE
        LET fresh == [ZeroFunc EXCEPT !.id = desc.memid, !.name = name, !.tid = tid,
                                      !.func_disp_idx = -1, !.prop_vt = "VT_EMPTY",
                                      !.hook = hook]
            funcs == IF k = 0 THEN Append(data.funcs, fresh) ELSE data.funcs
            idx   == IF k = 0 THEN Len(funcs) ELSE k
            info  == funcs[idx]
        IN  IF desc.invkind = "DISPATCH_METHOD"
            THEN [funcs |-> [funcs EXCEPT ![idx] = AddMethod(info, desc, data.func_disp_cnt)],
                  func_disp_cnt |-> data.func_disp_cnt + 1]
            ELSE [funcs |-> [funcs EXCEPT ![idx] = AddProperty(info, desc)],
                  func_disp_cnt |-> data.func_disp_cnt]

(***************************************************************************)
(* Class descriptors (dispex_static_data_t) and table construction.        *)
(***************************************************************************)
Classes == {"Widget", "Shape", "Shape2", "Far"}

\* The classes whose descriptor has a vtbl of hooks, and all classes.
HookClasses == {"Doc"}
AllClasses == Classes \cup HookClasses

\* iface_tids of each class, in the order preprocess_dispex_data walks them.
iface_tids(c) ==
    CASE c = "Widget" -> << IWidget_tid >>
      [] c = "Shape"  -> << IWidget_tid, IShape_tid >>
      [] c = "Shape2" -> << IWidget_tid, IShape_tid, IShape2_tid >>
      [] c = "Far"    -> << IFar_tid >>
      [] c = "Doc"    -> << IDoc_tid >>

S_OK == "S_OK"
S_FALSE == "S_FALSE"
E_FAIL == "E_FAIL"
E_NOTIMPL == "E_NOTIMPL"
E_INVALIDARG == "E_INVALIDARG"
E_OUTOFMEMORY == "E_OUTOFMEMORY"
E_UNEXPECTED == "E_UNEXPECTED"
DISP_E_UNKNOWNNAME == "DISP_E_UNKNOWNNAME"
DISP_E_MEMBERNOTFOUND == "DISP_E_MEMBERNOTFOUND"
FAILED(hres) == hres \notin {S_OK, S_FALSE}

\* The loop of process_interface over the functions of typeinfo, from the i-th on.
RECURSIVE ProcessFuncs(_, _, _)
ProcessFuncs(data, tid, i) ==
    IF i > Len(TypeInfo(tid)) THEN data
    ELSE ProcessFuncs(add_func_info(data, tid, TypeInfo(tid)[i], FALSE, <<>>), tid, i + 1)

\* ok is whether get_typeinfo(tid) succeeds.
process_interface(data, tid, ok) ==
    IF ~ok THEN [data |-> data, hres |-> E_FAIL]
    ELSE [data |-> ProcessFuncs(data, tid, 1), hres |-> S_OK]

\* The loop of preprocess_dispex_data over iface_tids, from the i-th on;
\* failAt is the first interface whose type information cannot be had (0: none).
RECURSIVE ProcessTids(_, _, _, _)
ProcessTids(data, tids, i, failAt) ==
    IF i > Len(tids) THEN data
    ELSE LET r == process_interface(data, tids[i], i # failAt)
         IN  IF FAILED(r.hres) THEN r.data
             ELSE ProcessTids(r.data, tids, i + 1, failAt)

dispid_cmp(p1, p2) == Sub32(p1.id, p2.id)

func_name_cmp(p1, p2) == wcsicmp(p1.name, p2.name)

\* Every order of the indices 1..n that a sort by the relation le can leave:
\* each element is at most its successor.  For a consistent comparator this is
\* the sorted order (up to ties); for an inconsistent one qsort promises nothing
\* more than this.
RECURSIVE Chains(_, _, _)
Chains(prefix, remaining, le) ==
    IF remaining = {} THEN {prefix}
    ELSE UNION { Chains(Append(prefix, x), remaining \ {x}, le) :
                 x \in {y \in remaining : prefix = <<>> \/ le[prefix[Len(prefix)]][y]} }

qsort(seq, le) == { [i \in 1..Len(seq) |-> seq[p[i]]] : p \in Chains(<<>>, 1..Len(seq), le) }

\* The tables preprocess_dispex_data can return for a class; failAt as above.
preprocess_dispex_data(c, compat_mode, failAt) ==
    LET data == ProcessTids([funcs |-> <<>>, func_disp_cnt |-> 0], iface_tids(c), 1, failAt)
        n    == Len(data.funcs)
        byId == [i \in 1..n |-> [j \in 1..n |-> dispid_cmp(data.funcs[i], data.funcs[j]) <= 0]]
    IN  IF n = 0
        THEN { [desc |-> c, compat_mode |-> compat_mode, funcs |-> <<>>, name_table |-> <<>>,
                func_disp_cnt |-> data.func_disp_cnt] }
        ELSE UNION {
               LET byName == [i \in 1..n |-> [j \in 1..n |-> func_name_cmp(funcs[i], funcs[j]) <= 0]]
               IN  { [desc |-> c, compat_mode |-> compat_mode, funcs |-> funcs,
                      name_table |-> nt, func_disp_cnt |-> data.func_disp_cnt] :
                     nt \in Chains(<<>>, 1..n, byName) }
               : funcs \in qsort(data.funcs, byId) }

\* The binary search of get_builtin_func between min and max (indices from 0):
\* the index (from 1) of the entry found, or 0 for DISP_E_MEMBERNOTFOUND.
RECURSIVE BuiltinSearch(_, _, _, _)
BuiltinSearch(funcs, id, min, max) ==
    IF min > max THEN 0
    ELSE LET n == (min + max) \div 2
         IN  IF funcs[n + 1].id = id THEN n + 1
             ELSE IF funcs[n + 1].id < id THEN BuiltinSearch(funcs, id, n + 1, max)
             ELSE BuiltinSearch(funcs, id, min, n - 1)

get_builtin_func(data, id) == BuiltinSearch(data.funcs, id, 0, Len(data.funcs) - 1)

(***************************************************************************)
(* The table cache: ensure_dispex_info called from several threads.        *)
(***************************************************************************)
Threads == {"t1", "t2"}
CacheModes == {"COMPAT_MODE_IE8", "COMPAT_MODE_IE9"}
Slots == Classes \X CacheModes

\* At most this many (class, mode) slots are resolved in one run.
MaxSlots == 1
\* Constructions of one slot's table that are followed.
MaxBuilds == 2

\* What preprocess_dispex_data can return for each class and each first
\* failing interface, the compat mode left open.
PreprocessCache ==
    [c \in AllClasses |-> [k \in 0..Len(iface_tids(c)) |-> preprocess_dispex_data(c, "", k)]]

\* A pointer to a table: the table and which construction of its slot made it.
TablePtr(serial, tbl) == [serial |-> serial, tbl |-> tbl]

\* The NULL pointer, and no thread.
NullTable ==
    TablePtr(0, [desc |-> "", compat_mode |-> "", funcs |-> <<>>, name_table |-> <<>>,
                 func_disp_cnt |-> 0])
NoThread == "none"
NoCall == <<"", "">>

SlotsInUse ==
    {s \in Slots : info_cache[s] # NullTable \/ \E t \in Threads : pc[t] # "idle" /\ call[t] = s}

\* The second test left out: the slot taken to be as the first test saw it.
SlotEmptyAssumed(s) == TRUE

\* The test of line 2017, made with the lock held.
SlotEmptyUnderLock(s) == info_cache[s] = NullTable

EnsureCall(t, s) ==
    /\ pc[t] = "idle"
    /\ Cardinality(SlotsInUse \cup {s}) <= MaxSlots
    /\ pc' = [pc EXCEPT ![t] = "check"]
    /\ call' = [call EXCEPT ![t] = s]
    /\ UNCHANGED <<info_cache, built, cs_owner, returned>>
    /\ UNCHANGED <<objs, last, inv>>

\* if(!desc->info_cache[compat_mode]), without the lock
EnsureCheck(t) ==
    /\ pc[t] = "check"
    /\ pc' = [pc EXCEPT ![t] = IF info_cache[call[t]] = NullTable THEN "enter" ELSE "return"]
    /\ UNCHANGED <<info_cache, built, cs_owner, call, returned>>
    /\ UNCHANGED <<objs, last, inv>>

EnsureEnter(t) ==
    /\ pc[t] = "enter"
    /\ cs_owner = NoThread
    /\ cs_owner' = t
    /\ pc' = [pc EXCEPT ![t] = "locked"]
    /\ UNCHANGED <<info_cache, built, call, returned>>
    /\ UNCHANGED <<objs, last, inv>>

\* The second test and, if the slot is still empty, preprocess_dispex_data and
\* the store of what it returned: NULL when memory or the type information of
\* disp_tid cannot be had, a table otherwise.
EnsureBuild(t) ==
    /\ pc[t] = "locked"
    /\ LET s == call[t]
       IN  IF SlotEmptyUnderLock(s)
           THEN \/ /\ UNCHANGED <<info_cache, built>>
                \/ /\ built[s] < MaxBuilds
                   /\ \E k \in 0..Len(iface_tids(s[1])) : \E d \in PreprocessCache[s[1]][k] :
                        info_cache' = [info_cache EXCEPT ![s] =
                            TablePtr(built[s] + 1, [d EXCEPT !.compat_mode = s[2]])]
                   /\ built' = [built EXCEPT ![s] = @ + 1]
           ELSE UNCHANGED <<info_cache, built>>
    /\ pc' = [pc EXCEPT ![t] = "leave"]
    /\ UNCHANGED <<cs_owner, call, returned>>
    /\ UNCHANGED <<objs, last, inv>>

EnsureLeave(t) ==
    /\ pc[t] = "leave"
    /\ cs_owner' = NoThread
    /\ pc' = [pc EXCEPT ![t] = "return"]
    /\ UNCHANGED <<info_cache, built, call, returned>>
    /\ UNCHANGED <<objs, last, inv>>

\* return desc->info_cache[compat_mode]
EnsureReturn(t) ==
    /\ pc[t] = "return"
    /\ returned' = [returned EXCEPT ![call[t]] =
                        IF info_cache[call[t]] = NullTable THEN @ ELSE @ \cup {info_cache[call[t]]}]
    /\ pc' = [pc EXCEPT ![t] = "idle"]
    /\ call' = [call EXCEPT ![t] = NoCall]
    /\ UNCHANGED <<info_cache, built, cs_owner>>
    /\ UNCHANGED <<objs, last, inv>>

NoObjects == <<>>

CacheInit ==
    /\ info_cache = [s \in Slots |-> NullTable]
    /\ built = [s \in Slots |-> 0]
    /\ cs_owner = NoThread
    /\ pc = [t \in Threads |-> "idle"]
    /\ call = [t \in Threads |-> NoCall]
    /\ returned = [s \in Slots |-> {}]
    /\ objs = NoObjects /\ last = NoObjects
    /\ inv = NoObjects

CacheNext ==
    \/ \E t \in Threads : \E s \in Slots : EnsureCall(t, s)
    \/ \E t \in Threads : EnsureCheck(t)
    \/ \E t \in Threads : EnsureEnter(t)
    \/ \E t \in Threads : EnsureBuild(t)
    \/ \E t \in Threads : EnsureLeave(t)
    \/ \E t \in Threads : EnsureReturn(t)

SpecCache == CacheInit /\ [][CacheNext]_vars

(***************************************************************************)
(* Claims about the table cache, checked under SpecCache.                  *)
(***************************************************************************)
NoSecondTable == \A s \in Slots : built[s] <= 1 /\ Cardinality(returned[s]) <= 1

PublishedStays ==
    \A s \in Slots : info_cache[s] # NullTable => info_cache'[s] = info_cache[s]

\* C1: for every class and compat mode, however concurrent ensure_dispex_info
\* calls interleave, preprocess_dispex_data returns a table for the slot at most
\* once, every call that returns a table returns that one, and a slot that is
\* not NULL never changes.
C1_CacheIdempotent == [] NoSecondTable /\ [][PublishedStays]_vars

\* A call lost the race: it saw the slot empty, and holds the lock now that
\* another call has published the table and returned it.
C1_Witness ==
    \E s \in Slots : \E t \in Threads :
        /\ pc[t] = "locked" /\ call[t] = s
        /\ info_cache[s] # NullTable
        /\ returned[s] = {info_cache[s]}

\* Identifiers a caller may look up: every reflected one and some that no
\* interface declares.
ProbeIds ==
    {TypeInfo(tid)[i].memid : <<tid, i>> \in
        {<<tid, i>> \in Tids \X (1..6) : i <= Len(TypeInfo(tid))}} \cup {DISPID_VALUE, 100}

StrictlySortedById(funcs) == \A i \in 1..(Len(funcs) - 1) : funcs[i].id < funcs[i + 1].id

SearchFindsExactly(tbl) ==
    \A id \in ProbeIds :
        LET n == get_builtin_func(tbl, id)
        IN  /\ (n # 0) <=> (\E i \in 1..Len(tbl.funcs) : tbl.funcs[i].id = id)
            /\ n # 0 => tbl.funcs[n].id = id

\* C2: in every published table the member array is strictly increasing by
\* identifier, and get_builtin_func(id) finds a member exactly when the table
\* holds one with that identifier.
C2_SortedAndSearchable ==
    \A s \in Slots :
        info_cache[s] # NullTable =>
            StrictlySortedById(info_cache[s].tbl.funcs) /\ SearchFindsExactly(info_cache[s].tbl)

(***************************************************************************)
(* Argument marshalling: change_type, invoke_builtin_function and          *)
(* typeinfo_invoke.                                                        *)
(*                                                                         *)
(* A BSTR value k >= 0 stands for the decimal text of k, a negative one    *)
(* for text that is no number.  An object pointer is 0 (null), or an       *)
(* object; QueryInterface for a narrowing interface answers with another   *)
(* pointer of the same object.                                             *)
(***************************************************************************)
DISP_E_TYPEMISMATCH == "DISP_E_TYPEMISMATCH"
E_NOINTERFACE == "E_NOINTERFACE"

ObjWithTarget == 1
ObjWithoutTarget == 2

\* IDispatch_QueryInterface(obj, iid): the hres and the interface pointer.
QueryInterface(obj, iid) ==
    IF obj = ObjWithTarget /\ iid = IID_Target
    THEN [hres |-> S_OK, iface |-> obj + 100]
    ELSE [hres |-> E_NOINTERFACE, iface |-> 0]

\* oleaut32's VariantChangeType for the types used here.
VariantChangeType(src, vt) ==
    IF src.vt = vt THEN [hres |-> S_OK, v |-> src]
    ELSE IF src.vt = "VT_BSTR" /\ vt = "VT_I4"
    THEN IF src.val >= 0 THEN [hres |-> S_OK, v |-> Variant("VT_I4", src.val)]
         ELSE [hres |-> DISP_E_TYPEMISMATCH, v |-> VEmpty]
    ELSE IF src.vt = "VT_I4" /\ vt = "VT_BSTR"
    THEN [hres |-> S_OK, v |-> Variant("VT_BSTR", src.val)]
    ELSE IF src.vt = "VT_EMPTY" /\ vt \in {"VT_I4", "VT_BSTR"}
    THEN [hres |-> S_OK, v |-> Variant(vt, 0)]
    ELSE [hres |-> DISP_E_TYPEMISMATCH, v |-> VEmpty]

\* change_type with no caller-supplied conversion service.
change_type(src, vt) ==
    IF vt = "VT_BOOL" /\ src.vt = "VT_BSTR"
    THEN [hres |-> S_OK, v |-> Variant("VT_BOOL", IF src.val # 0 THEN 1 ELSE 0)]
    ELSE IF vt \in {"VT_UNKNOWN", "VT_DISPATCH"} /\ src.vt \in {"VT_EMPTY", "VT_NULL"}
    THEN [hres |-> S_OK, v |-> Variant(vt, 0)]
    ELSE VariantChangeType(src, vt)

\* Too few arguments by one more than the test allows.
ArgCountTooSmallOffByOne(func, cArgs) == cArgs + func.default_value_cnt + 1 < func.argc

\* The test of line 1623.
ArgCountTooSmall(func, cArgs) == cArgs + func.default_value_cnt < func.argc

\* The arguments read in the order they are stored.
ArgIndexForward(cArgs, i) == i

\* dp->rgvarg+dp->cArgs-i-1 for the i-th parameter (both counted from 1 here).
ArgIndex(cArgs, i) == cArgs - i + 1

\* The default value passed on through change_type.
DefaultArgCoerced(func, i) == change_type(func.arg_info[i].default_value, "VT_BSTR").v

\* &func->arg_info[i].default_value
DefaultArg(func, i) == func.arg_info[i].default_value

\* No argument is narrowed.
NeverNarrowed(func, i, v) == FALSE

\* Lines 1647-1648: a converted argument that is narrowed to the interface
\* its parameter names.
NeedsNarrowing(func, i, v) ==
    func.arg_types[i] = "VT_DISPATCH" /\ func.arg_info[i].iid # IID_NULL /\ v.val # 0

\* One turn of the loop of lines 1629-1663 for parameter i, given a supplied
\* argument: the hres and the value arg_ptrs[i] points to.
MarshalArg(func, arg, i) ==
    LET conv == IF func.arg_types[i] = arg.vt THEN [hres |-> S_OK, v |-> arg]
                ELSE change_type(arg, func.arg_types[i])
    IN  IF FAILED(conv.hres) THEN conv
        ELSE IF NeedsNarrowing(func, i, conv.v)
        THEN LET q == QueryInterface(conv.v.val, func.arg_info[i].iid)
             IN  IF FAILED(q.hres) THEN [hres |-> q.hres, v |-> conv.v]
                 ELSE [hres |-> S_OK, v |-> Variant("VT_DISPATCH", q.iface)]
        ELSE conv

\* The loop from parameter i on: the hres it ends with, arg_ptrs, and for each
\* parameter filled the index in rgvarg it was read from (0: the default).
RECURSIVE MarshalArgs(_, _, _, _, _)
MarshalArgs(func, rgvarg, i, ptrs, from) ==
    IF i > func.argc THEN [hres |-> S_OK, arg_ptrs |-> ptrs, from |-> from]
    ELSE IF i > Len(rgvarg)
    THEN MarshalArgs(func, rgvarg, i + 1, Append(ptrs, DefaultArg(func, i)), Append(from, 0))
    ELSE LET k == ArgIndex(Len(rgvarg), i)
             m == MarshalArg(func, rgvarg[k], i)
         IN  IF FAILED(m.hres) THEN [hres |-> m.hres, arg_ptrs |-> ptrs, from |-> from]
             ELSE MarshalArgs(func, rgvarg, i + 1, Append(ptrs, m.v), Append(from, k))

\* What a call of invoke_builtin_function or typeinfo_invoke did: the path it
\* took ("none": no member was invoked), the values handed to the member in
\* parameter order, and the indices of rgvarg they came from.
Outcome(hres, path, args, from) == [hres |-> hres, path |-> path, args |-> args, from |-> from]

\* typeinfo_invoke: the window of rgvarg handed to ITypeInfo::Invoke, which
\* reads it from its end; ti_hres is what get_typeinfo and Invoke answer.
typeinfo_invoke(func, rgvarg, ti_ok, ti_hres) ==
    LET cArgs == Len(rgvarg)
        skip  == IF cArgs > func.argc THEN cArgs - func.argc ELSE 0
        n     == cArgs - skip
    IN  IF ~ti_ok THEN Outcome(E_FAIL, "none", <<>>, <<>>)
        ELSE Outcome(ti_hres, "typeinfo",
                     [i \in 1..n |-> rgvarg[skip + n - i + 1]],
                     [i \in 1..n |-> skip + n - i + 1])

\* Lines 1671-1686: the switch over the return type has no case for prop_vt.
ReturnTypeAsserts(func) ==
    func.prop_vt # "VT_VOID" /\ func.prop_vt # "VT_PTR" /\ ~is_arg_type_supported(func.prop_vt)

\* invoke_builtin_function.  this_ok: this_obj has the member's interface;
\* hook_hres: what the member's hook answers, if it has one; native_hres: what
\* the native member answers.
invoke_builtin_function(func, rgvarg, this_ok, hook_hres, ti_ok, ti_hres, native_hres) ==
    IF ~this_ok THEN Outcome(E_UNEXPECTED, "none", <<>>, <<>>)
    ELSE IF func.hook /\ hook_hres # S_FALSE THEN Outcome(hook_hres, "hook", <<>>, <<>>)
    ELSE IF func.call_vtbl_off = 0 THEN typeinfo_invoke(func, rgvarg, ti_ok, ti_hres)
    ELSE IF ArgCountTooSmall(func, Len(rgvarg)) THEN Outcome(E_INVALIDARG, "none", <<>>, <<>>)
    ELSE LET m == MarshalArgs(func, rgvarg, 1, <<>>, <<>>)
         IN  IF FAILED(m.hres) THEN Outcome(m.hres, "none", <<>>, <<>>)
             ELSE IF ReturnTypeAsserts(func) THEN Outcome("SIGABRT", "assert", <<>>, <<>>)
             ELSE Outcome(native_hres, "native", m.arg_ptrs, m.from)

(***************************************************************************)
(* Calls of invoke_builtin_function on the methods of the Shape2 table.    *)
(***************************************************************************)
\* Longest argument list a caller passes.
MaxArgs == 3

\* The func_info_t entries of Shape2 that are methods.
InvokeFuncs ==
    UNION { { d.funcs[i] : i \in { j \in 1..Len(d.funcs) : d.funcs[j].func_disp_idx >= 0 } }
            : d \in PreprocessCache["Shape2"][0] }

\* The variants a caller passes.
ArgValues ==
    { Variant("VT_I4", 1), Variant("VT_I4", 2), Variant("VT_BSTR", 7), Variant("VT_BSTR", -1),
      VEmpty, Variant("VT_DISPATCH", 0), Variant("VT_DISPATCH", ObjWithTarget),
      Variant("VT_DISPATCH", ObjWithoutTarget) }

RECURSIVE SeqsUpTo(_, _)
SeqsUpTo(S, n) ==
    IF n = 0 THEN { <<>> }
    ELSE LET shorter == SeqsUpTo(S, n - 1)
         IN  shorter \cup { Append(q, x) : q \in { r \in shorter : Len(r) = n - 1 }, x \in S }

ArgLists == SeqsUpTo(ArgValues, MaxArgs)

NoInvoke ==
    [busy |-> FALSE, func |-> ZeroFunc, rgvarg |-> <<>>, this_ok |-> FALSE,
     out |-> Outcome("", "none", <<>>, <<>>)]

\* A caller invokes a method with an argument list.
InvokeCall ==
    /\ ~inv.busy
    /\ \E func \in InvokeFuncs, rgvarg \in ArgLists, this_ok \in BOOLEAN,
          ti_ok \in BOOLEAN, member_hres \in {S_OK, E_FAIL} :
          inv' = [busy |-> TRUE, func |-> func, rgvarg |-> rgvarg, this_ok |-> this_ok,
                  out |-> invoke_builtin_function(func, rgvarg, this_ok, S_FALSE, ti_ok,
                                                  member_hres, member_hres)]
    /\ UNCHANGED <<info_cache, built, cs_owner, pc, call, returned, objs, last>>

\* The caller has read the result.
InvokeDone ==
    /\ inv.busy
    /\ inv' = NoInvoke
    /\ UNCHANGED <<info_cache, built, cs_owner, pc, call, returned, objs, last>>

InvokeInit ==
    /\ info_cache = [s \in Slots |-> NullTable]
    /\ built = [s \in Slots |-> 0]
    /\ cs_owner = NoThread
    /\ pc = [t \in Threads |-> "idle"]
    /\ call = [t \in Threads |-> NoCall]
    /\ returned = [s \in Slots |-> {}]
    /\ objs = NoObjects /\ last = NoObjects
    /\ inv = NoInvoke

InvokeNext ==
    \/ InvokeCall
    \/ InvokeDone

SpecInvoke == InvokeInit /\ [][InvokeNext]_vars

(***************************************************************************)
(* Claims about argument marshalling, checked under SpecInvoke.            *)
(***************************************************************************)
\* The FUNCDESC a method entry was compiled from.
DeclaredMethod(func) ==
    LET ti == TypeInfo(func.tid)
    IN  ti[CHOOSE i \in 1..Len(ti) : ti[i].memid = func.id /\ ti[i].invkind = "DISPATCH_METHOD"]

\* N and K: the declared parameters without and with a default value.
RequiredParams(func) ==
    LET d == DeclaredMethod(func)
    IN  Cardinality({i \in 1..d.cParams : ~d.lprgelemdescParam[i].has_default})
DefaultedParams(func) ==
    LET d == DeclaredMethod(func)
    IN  Cardinality({i \in 1..d.cParams : d.lprgelemdescParam[i].has_default})

\* The call in inv got as far as the argument count test of the native path.
OnNativePath == inv.busy /\ inv.this_ok /\ inv.func.call_vtbl_off # 0

\* C5: a call on the native path with fewer arguments than the method has
\* parameters without default ends with E_INVALIDARG, the member not invoked.
C5_TooFewArgs ==
    (OnNativePath /\ Len(inv.rgvarg) < RequiredParams(inv.func))
        => (inv.out.hres = E_INVALIDARG /\ inv.out.path = "none")

C5_Witness ==
    /\ OnNativePath
    /\ Len(inv.rgvarg) = RequiredParams(inv.func) - 1
    /\ inv.out.hres = E_INVALIDARG

\* C6: with N <= c <= N+K arguments the count test passes; when the member is
\* invoked, each parameter past the c-th gets its declared default as declared,
\* and the i-th parameter up to the c-th gets the caller's i-th positional
\* argument (rgvarg read from its end), converted to the parameter's type.
C6_DefaultsFill ==
    LET func == inv.func
        c    == Len(inv.rgvarg)
        d    == DeclaredMethod(func)
    IN  (OnNativePath /\ RequiredParams(func) <= c
                      /\ c <= RequiredParams(func) + DefaultedParams(func))
        => /\ inv.out.hres # E_INVALIDARG
           /\ inv.out.path = "native" =>
                /\ Len(inv.out.args) = d.cParams
                /\ \A i \in 1..d.cParams :
                     IF i > c
                     THEN /\ d.lprgelemdescParam[i].has_default
                          /\ inv.out.args[i] = d.lprgelemdescParam[i].default_value
                     ELSE /\ inv.out.from[i] = c - i + 1
                          /\ inv.out.args[i] = MarshalArg(func, inv.rgvarg[c - i + 1], i).v
                          /\ (inv.rgvarg[c - i + 1].vt = d.lprgelemdescParam[i].vt
                                => inv.out.args[i] = inv.rgvarg[c - i + 1])

C6_Witness ==
    /\ OnNativePath
    /\ inv.out.path = "native"
    /\ Len(inv.rgvarg) = RequiredParams(inv.func)
    /\ DefaultedParams(inv.func) > 0
    /\ Len(inv.rgvarg) > 0

\* The last n indices of an argument list of c entries, in parameter order.
LastEntries(c, n) == [i \in 1..n |-> c - i + 1]

\* C7: with more than N+K arguments the call is not refused for its count, the
\* first c - (N+K) entries of rgvarg are left unread and the last N+K are
\* forwarded; the ITypeInfo fallback forwards the same entries.
C7_ExcessIgnored ==
    LET func == inv.func
        c    == Len(inv.rgvarg)
        d    == DeclaredMethod(func)
    IN  (inv.busy /\ inv.this_ok /\ c > d.cParams)
        => /\ inv.out.hres # E_INVALIDARG
           /\ inv.out.path \in {"native", "typeinfo"} =>
                /\ inv.out.from = LastEntries(c, d.cParams)
                /\ inv.out.from = typeinfo_invoke(func, inv.rgvarg, TRUE, S_OK).from
                /\ \A i \in 1..d.cParams :
                     inv.out.path = "typeinfo" => inv.out.args[i] = inv.rgvarg[c - i + 1]

C7_Witness ==
    /\ OnNativePath
    /\ inv.out.path = "native"
    /\ Len(inv.rgvarg) > DeclaredMethod(inv.func).cParams
    /\ inv.rgvarg[1].vt = "VT_DISPATCH"

(***************************************************************************)
(* DispatchEx objects and the dynamic property store.                      *)
(*                                                                         *)
(* An object is [info, prototype, props]: props is                         *)
(* dynamic_data->props[0..prop_cnt-1].  No class of the model has a        *)
(* populate_props callback, so a block not yet allocated and an empty one  *)
(* are the same store.                                                     *)
(* A slot is [name, var, flags]; the slot at index i (from 1) has the      *)
(* identifier DISPID_DYNPROP_0 + i - 1.  A DYNPROP_PROTREF slot keeps the  *)
(* index of the prototype's slot in var, as V_UI4 of a VT_EMPTY variant.   *)
(* Allocation failures are not followed.                                   *)
(***************************************************************************)
DYNPROP_DELETED == "DYNPROP_DELETED"
DYNPROP_HIDDEN  == "DYNPROP_HIDDEN"
DYNPROP_PROTREF == "DYNPROP_PROTREF"

fdexNameCaseSensitive   == "fdexNameCaseSensitive"
fdexNameCaseInsensitive == "fdexNameCaseInsensitive"
fdexNameEnsure          == "fdexNameEnsure"

COMPAT_MODE_IE7 == "COMPAT_MODE_IE7"
COMPAT_MODE_IE8 == "COMPAT_MODE_IE8"
COMPAT_MODE_IE9 == "COMPAT_MODE_IE9"
\* The order of compat_mode_t.
ModeRank(mode) ==
    CASE mode = COMPAT_MODE_IE7 -> 7
      [] mode = COMPAT_MODE_IE8 -> 8
      [] mode = COMPAT_MODE_IE9 -> 9

\* No object: a NULL prototype.
NoObj == ""

Slot(name, var, flags) == [name |-> name, var |-> var, flags |-> flags]

dispex_compat_mode(objs_, o) == objs_[o].info.compat_mode

\* A scan that passes over slots flagged DYNPROP_DELETED.
RECURSIVE FindPropSkippingDeleted(_, _, _, _)
FindPropSkippingDeleted(props, name, flags, i) ==
    IF i > Len(props) THEN 0
    ELSE IF DYNPROP_DELETED \notin props[i].flags
            /\ (IF fdexNameCaseInsensitive \in flags
                THEN wcsicmp(props[i].name, name) = 0
                ELSE wcscmp(props[i].name, name) = 0)
    THEN i
    ELSE FindPropSkippingDeleted(props, name, flags, i + 1)

\* The first slot at or after index i whose name matches, or 0.
RECURSIVE FindProp(_, _, _, _)
FindProp(props, name, flags, i) ==
    IF i > Len(props) THEN 0
    ELSE IF (IF fdexNameCaseInsensitive \in flags
             THEN wcsicmp(props[i].name, name) = 0
             ELSE wcscmp(props[i].name, name) = 0)
    THEN i
    ELSE FindProp(props, name, flags, i + 1)

\* prop->flags &= ~DYNPROP_DELETED (line 798).
Revive(objs_, o, i) == [objs_ EXCEPT ![o].props[i].flags = @ \ {DYNPROP_DELETED}]

\* The prototype's slot is looked at whatever its flags.
ProtSlotDeletedIgnored(objs_, p, k) == FALSE

\* The test of line 763: the slot a reference points to carries DYNPROP_DELETED.
ProtSlotDeleted(objs_, p, k) == DYNPROP_DELETED \in objs_[p].props[k].flags

\* get_dynamic_prop and fixup_prop_ref call each other through the prototype.
\* Both answer with the objects as they leave them and with fix, which says
\* what became of the slot: "revived", "to_protref", "to_deleted", "tombstone"
\* (found deleted and left so), "created", "created_ref" or "none".
RECURSIVE get_dynamic_prop(_, _, _, _)
RECURSIVE fixup_prop_ref(_, _, _)

\* Lines 753-759: r is what get_dynamic_prop answered for the prototype p.
FixupDeleted(r, o, i, p) ==
    IF FAILED(r.hres) THEN [objs |-> r.objs, fix |-> "none"]
    ELSE IF DYNPROP_DELETED \notin r.objs[p].props[r.idx].flags
    THEN [objs |-> [r.objs EXCEPT ![o].props[i].flags = {DYNPROP_PROTREF},
                                  ![o].props[i].var = Variant("VT_EMPTY", r.idx)],
          fix |-> "to_protref"]
    ELSE [objs |-> r.objs, fix |-> "none"]

fixup_prop_ref(objs_, o, i) ==
    IF DYNPROP_DELETED \in objs_[o].props[i].flags
    THEN IF objs_[o].prototype = NoObj THEN [objs |-> objs_, fix |-> "none"]
         ELSE FixupDeleted(get_dynamic_prop(objs_, objs_[o].prototype, objs_[o].props[i].name,
                                            {fdexNameCaseSensitive}),
                           o, i, objs_[o].prototype)
    ELSE IF DYNPROP_PROTREF \in objs_[o].props[i].flags
            /\ ProtSlotDeleted(objs_, objs_[o].prototype, objs_[o].props[i].var.val)
    THEN [objs |-> [objs_ EXCEPT ![o].props[i].flags = {DYNPROP_DELETED}],
          fix |-> "to_deleted"]
    ELSE [objs |-> objs_, fix |-> "none"]

\* Lines 794-801: the slot at index i matched and f is what fixup_prop_ref left.
FoundProp(f, o, i, alloc) ==
    IF DYNPROP_DELETED \in f.objs[o].props[i].flags
    THEN IF ~alloc
         THEN [objs |-> f.objs, hres |-> DISP_E_UNKNOWNNAME, idx |-> 0,
               fix |-> IF f.fix = "none" THEN "tombstone" ELSE f.fix]
         ELSE [objs |-> Revive(f.objs, o, i), hres |-> S_OK, idx |-> i, fix |-> "revived"]
    ELSE [objs |-> f.objs, hres |-> S_OK, idx |-> i, fix |-> f.fix]

\* The new slot never refers to the prototype.
NewPlainSlot(name, prot_prop) == Slot(name, VEmpty, {})

\* Lines 842-848: the slot appended, a reference when the prototype has the
\* name at index prot_prop.
NewSlot(name, prot_prop) ==
    IF prot_prop # 0 THEN Slot(name, Variant("VT_EMPTY", prot_prop), {DYNPROP_PROTREF})
    ELSE Slot(name, VEmpty, {})

\* Lines 815-850: no slot matched; prot_prop is the index of the prototype's
\* slot or 0, objs_ the objects after the prototype was asked.
CreateProp(objs_, o, name, alloc, prot_prop) ==
    IF ~alloc /\ prot_prop = 0
    THEN [objs |-> objs_, hres |-> DISP_E_UNKNOWNNAME, idx |-> 0, fix |-> "none"]
    ELSE [objs |-> [objs_ EXCEPT ![o].props =
                       Append(@, NewSlot(name, prot_prop))],
          hres |-> S_OK, idx |-> Len(objs_[o].props) + 1,
          fix |-> IF prot_prop # 0 THEN "created_ref" ELSE "created"]

\* Lines 805-813: r is what get_dynamic_prop answered for the prototype p; a
\* slot found DELETED there counts as none.
AfterPrototype(r, o, name, alloc, p) ==
    CreateProp(r.objs, o, name, alloc,
               IF r.hres # DISP_E_UNKNOWNNAME
                  /\ DYNPROP_DELETED \notin r.objs[p].props[r.idx].flags
               THEN r.idx ELSE 0)

\* The body of get_dynamic_prop once the scan of lines 792-803 has answered i.
AfterScan(objs_, o, name, flags, i) ==
    IF i # 0
    THEN FoundProp(fixup_prop_ref(objs_, o, i), o, i, fdexNameEnsure \in flags)
    ELSE IF objs_[o].prototype = NoObj
    THEN CreateProp(objs_, o, name, fdexNameEnsure \in flags, 0)
    ELSE AfterPrototype(get_dynamic_prop(objs_, objs_[o].prototype, name,
                                         {fdexNameCaseSensitive}),
                        o, name, fdexNameEnsure \in flags, objs_[o].prototype)

get_dynamic_prop(objs_, o, name, flags) ==
    AfterScan(objs_, o, name, flags, FindProp(objs_[o].props, name, flags, 1))

(***************************************************************************)
(* The hooks of a class descriptor's vtbl.  dispex.c only calls them; what *)
(* they do is the class's.  The classes of HookClasses keep a fixed list   *)
(* of custom members, whose identifiers count up from                      *)
(* MSHTML_DISPID_CUSTOM_MIN, and have the hooks get_dispid, get_name,      *)
(* invoke and next_dispid; no class has get_static_dispid or delete.       *)
(***************************************************************************)
n_f0 == <<102, 48>>
\* The second custom member has the name of a member of the table.
CustomNames(desc) == IF desc \in HookClasses THEN <<n_f0, n_body>> ELSE <<>>
has_vtbl(desc) == desc \in HookClasses

\* The index of the first custom member at or after k whose name matches, or 0.
RECURSIVE FindCustom(_, _, _, _)
FindCustom(names, name, grfdex, k) ==
    IF k > Len(names) THEN 0
    ELSE IF (IF fdexNameCaseInsensitive \in grfdex
             THEN wcsicmp(names[k], name) = 0
             ELSE wcscmp(names[k], name) = 0)
    THEN k
    ELSE FindCustom(names, name, grfdex, k + 1)

CustomFound(k) ==
    IF k = 0 THEN [hres |-> DISP_E_UNKNOWNNAME, id |-> 0]
    ELSE [hres |-> S_OK, id |-> MSHTML_DISPID_CUSTOM_MIN + (k - 1)]

vtbl_get_dispid(desc, name, grfdex) ==
    CustomFound(FindCustom(CustomNames(desc), name, grfdex, 1))

vtbl_knows(desc, id) ==
    id - MSHTML_DISPID_CUSTOM_MIN \in 0..(Len(CustomNames(desc)) - 1)

vtbl_get_name(desc, id) ==
    IF vtbl_knows(desc, id)
    THEN [hres |-> S_OK, name |-> CustomNames(desc)[id - MSHTML_DISPID_CUSTOM_MIN + 1]]
    ELSE [hres |-> DISP_E_MEMBERNOTFOUND, name |-> <<>>]

vtbl_invoke(desc, id) == IF vtbl_knows(desc, id) THEN S_OK ELSE DISP_E_MEMBERNOTFOUND

\* next_dispid: the custom member after id, the first for DISPID_STARTENUM,
\* S_FALSE after the last.
vtbl_next_dispid(desc, id) ==
    IF id = DISPID_STARTENUM
    THEN IF Len(CustomNames(desc)) = 0 THEN [hres |-> S_FALSE, pid |-> DISPID_STARTENUM]
         ELSE [hres |-> S_OK, pid |-> MSHTML_DISPID_CUSTOM_MIN]
    ELSE IF ~vtbl_knows(desc, id) THEN [hres |-> DISP_E_MEMBERNOTFOUND, pid |-> 0]
    ELSE IF vtbl_knows(desc, id + 1) THEN [hres |-> S_OK, pid |-> id + 1]
    ELSE [hres |-> S_FALSE, pid |-> DISPID_STARTENUM]

(***************************************************************************)
(* The IDispatchEx router.  Every operator answers with the objects as the *)
(* call leaves them and with what the call returns.  The objects have no   *)
(* proxy.                                                                  *)
(***************************************************************************)
\* One probe of the binary search of dispex_get_builtin_id; c is what wcsicmp
\* answered for the entry func at index n.
RECURSIVE BuiltinNameSearch(_, _, _, _, _)
NameProbe(info, name, grfdex, min, max, n, func, c) ==
    IF c = 0
    THEN IF fdexNameCaseSensitive \in grfdex /\ wcscmp(func.name, name) # 0
         THEN [hres |-> DISP_E_UNKNOWNNAME, id |-> 0]
         ELSE [hres |-> S_OK, id |-> func.id]
    ELSE IF c > 0 THEN BuiltinNameSearch(info, name, grfdex, min, n - 1)
    ELSE BuiltinNameSearch(info, name, grfdex, n + 1, max)

\* The search over name_table[min..max] (indices from 0).
BuiltinNameSearch(info, name, grfdex, min, max) ==
    IF min > max THEN [hres |-> DISP_E_UNKNOWNNAME, id |-> 0]
    ELSE NameProbe(info, name, grfdex, min, max, (min + max) \div 2,
                   info.funcs[info.name_table[(min + max) \div 2 + 1]],
                   wcsicmp(info.funcs[info.name_table[(min + max) \div 2 + 1]].name, name))

\* The hook is asked before the table's answer is looked at.
AfterNameTableHookFirst(b, desc, name, grfdex) ==
    IF has_vtbl(desc) /\ vtbl_get_dispid(desc, name, grfdex).hres = S_OK
    THEN vtbl_get_dispid(desc, name, grfdex)
    ELSE b

\* Lines 1442-1458: b is what the search of the name table answered.
AfterNameTable(b, desc, name, grfdex) ==
    IF b.hres = S_OK THEN b
    ELSE IF has_vtbl(desc) THEN vtbl_get_dispid(desc, name, grfdex)
    ELSE [hres |-> DISP_E_UNKNOWNNAME, id |-> 0]

dispex_get_builtin_id(objs_, o, name, grfdex) ==
    AfterNameTable(BuiltinNameSearch(objs_[o].info, name, grfdex, 0,
                                     Len(objs_[o].info.funcs) - 1),
                   objs_[o].info.desc, name, grfdex)

\* Lines 2669-2673: r is what get_dynamic_prop answered.
DynamicId(r) ==
    IF FAILED(r.hres)
    THEN [objs |-> r.objs, hres |-> r.hres, id |-> 0, fix |-> r.fix]
    ELSE [objs |-> r.objs, hres |-> S_OK, id |-> DISPID_DYNPROP_0 + (r.idx - 1), fix |-> r.fix]

\* Lines 2665-2669: b is what dispex_get_builtin_id answered.
AfterBuiltinId(b, objs_, o, bstrName, grfdex) ==
    IF b.hres # DISP_E_UNKNOWNNAME
    THEN [objs |-> objs_, hres |-> b.hres, id |-> b.id, fix |-> "none"]
    ELSE DynamicId(get_dynamic_prop(objs_, o, bstrName, grfdex))

DispatchEx_GetDispID(objs_, o, bstrName, grfdex) ==
    AfterBuiltinId(dispex_get_builtin_id(objs_, o, bstrName, grfdex), objs_, o, bstrName, grfdex)

\* Lines 2765-2772: k is the index get_builtin_func found, or 0.
BuiltinName(objs_, o, k) ==
    IF k = 0 THEN [objs |-> objs_, hres |-> DISP_E_MEMBERNOTFOUND, name |-> <<>>]
    ELSE [objs |-> objs_, hres |-> S_OK, name |-> objs_[o].info.funcs[k].name]

DispatchEx_GetMemberName(objs_, o, id) ==
    IF is_custom_dispid(id)
    THEN IF has_vtbl(objs_[o].info.desc)
         THEN [objs |-> objs_] @@ vtbl_get_name(objs_[o].info.desc, id)
         ELSE [objs |-> objs_, hres |-> DISP_E_MEMBERNOTFOUND, name |-> <<>>]
    ELSE IF is_dynamic_dispid(id)
    THEN IF Len(objs_[o].props) <= id - DISPID_DYNPROP_0
         THEN [objs |-> objs_, hres |-> DISP_E_MEMBERNOTFOUND, name |-> <<>>]
         ELSE [objs |-> objs_, hres |-> S_OK,
               name |-> objs_[o].props[id - DISPID_DYNPROP_0 + 1].name]
    ELSE BuiltinName(objs_, o, get_builtin_func(objs_[o].info, id))

DISPATCH_METHOD      == "DISPATCH_METHOD"
DISPATCH_PROPERTYGET == "DISPATCH_PROPERTYGET"
DISPATCH_PROPERTYPUT == "DISPATCH_PROPERTYPUT"
DISPATCH_METHOD_OR_PROPERTYGET == "DISPATCH_METHOD|DISPATCH_PROPERTYGET"

\* The slot's value is left as it is.
VariantKept(objs_, o, i) == objs_

\* VariantClear: the slot's value is released.
VariantClear(objs_, o, i) == [objs_ EXCEPT ![o].props[i].var = VEmpty]

\* Lines 3293-3302 and 3304-3310: f is what fixup_prop_ref left, prop the slot
\* read (the prototype's for a DYNPROP_PROTREF slot), callee_hres what a
\* callable value answers through invoke_disp_value.
ReadProp(f, flags, prop, wFlags, callee_hres) ==
    IF DYNPROP_DELETED \in flags
    THEN [objs |-> f.objs, hres |-> DISP_E_MEMBERNOTFOUND, val |-> VEmpty, fix |-> f.fix]
    ELSE IF wFlags = DISPATCH_PROPERTYGET
    THEN [objs |-> f.objs, hres |-> S_OK, val |-> prop.var, fix |-> f.fix]
    ELSE IF prop.var.vt # "VT_DISPATCH"
    THEN [objs |-> f.objs, hres |-> E_NOTIMPL, val |-> VEmpty, fix |-> f.fix]
    ELSE [objs |-> f.objs, hres |-> callee_hres, val |-> VEmpty, fix |-> f.fix]

AfterFixup(f, o, i, wFlags, callee_hres) ==
    ReadProp(f, f.objs[o].props[i].flags,
             IF DYNPROP_PROTREF \in f.objs[o].props[i].flags
             THEN f.objs[f.objs[o].prototype].props[f.objs[o].props[i].var.val]
             ELSE f.objs[o].props[i],
             wFlags, callee_hres)

\* The DISPEXPROP_DYNAMIC case of dispex_invoke for DISPATCH_METHOD and
\* DISPATCH_PROPERTYGET, after the test of res.
InvokeDynamicRead(objs_, o, i, wFlags, callee_hres) ==
    AfterFixup(fixup_prop_ref(objs_, o, i), o, i, wFlags, callee_hres)

\* The flags of a slot that was put are left as they were.
KeepRefFlags(flags) == flags

\* prop->flags &= ~(DYNPROP_DELETED | DYNPROP_PROTREF) (line 3325).
ClearRefFlags(flags) == flags \ {DYNPROP_DELETED, DYNPROP_PROTREF}

\* The DISPATCH_PROPERTYPUT case, lines 3311-3326; the values put are ones
\* whose variant_copy cannot fail.
InvokeDynamicPut(objs_, o, i, rgvarg) ==
    IF Len(rgvarg) # 1
    THEN [objs |-> objs_, hres |-> E_INVALIDARG, val |-> VEmpty, fix |-> "none"]
    ELSE [objs |-> [VariantClear(objs_, o, i) EXCEPT
                       ![o].props[i].var = rgvarg[1],
                       ![o].props[i].flags = ClearRefFlags(@)],
          hres |-> S_OK, val |-> VEmpty, fix |-> "none"]

\* dispex_invoke for custom and dynamic identifiers; identifiers of builtin
\* members go on to invoke_builtin_prop.  rgvarg is pdp->rgvarg (no named
\* arguments), res_null says that the caller passed no result variant.
dispex_invoke(objs_, o, id, wFlags, rgvarg, res_null, callee_hres) ==
    CASE get_dispid_type(id) = "DISPEXPROP_CUSTOM" ->
           [objs |-> objs_,
            hres |-> IF has_vtbl(objs_[o].info.desc) THEN vtbl_invoke(objs_[o].info.desc, id)
                     ELSE DISP_E_MEMBERNOTFOUND,
            val |-> VEmpty, fix |-> "none"]
      [] get_dispid_type(id) = "DISPEXPROP_DYNAMIC" ->
           IF Len(objs_[o].props) <= id - DISPID_DYNPROP_0
           THEN [objs |-> objs_, hres |-> DISP_E_MEMBERNOTFOUND, val |-> VEmpty, fix |-> "none"]
           ELSE IF wFlags = DISPATCH_METHOD_OR_PROPERTYGET /\ res_null
           THEN [objs |-> objs_, hres |-> E_INVALIDARG, val |-> VEmpty, fix |-> "none"]
           ELSE IF wFlags \in {DISPATCH_METHOD_OR_PROPERTYGET, DISPATCH_METHOD,
                               DISPATCH_PROPERTYGET}
           THEN InvokeDynamicRead(objs_, o, id - DISPID_DYNPROP_0 + 1, wFlags, callee_hres)
           ELSE IF wFlags = DISPATCH_PROPERTYPUT
           THEN InvokeDynamicPut(objs_, o, id - DISPID_DYNPROP_0 + 1, rgvarg)
           ELSE [objs |-> objs_, hres |-> E_NOTIMPL, val |-> VEmpty, fix |-> "none"]

\* The deleted slot keeps no mark.
MarkNothing(objs_, o, i) == objs_

\* The deleted slot is taken out of the store and the later ones move up.
DropSlot(objs_, o, i) ==
    [objs_ EXCEPT ![o].props = SubSeq(@, 1, i - 1) \o SubSeq(@, i + 1, Len(@))]

\* prop->flags |= DYNPROP_DELETED (line 3378).
MarkDeleted(objs_, o, i) == [objs_ EXCEPT ![o].props[i].flags = @ \cup {DYNPROP_DELETED}]

\* dispex_delete_prop.  reset_builtin_func works on the function objects of
\* builtin methods, which this model does not keep.
dispex_delete_prop(objs_, o, id) ==
    IF ModeRank(dispex_compat_mode(objs_, o)) < ModeRank(COMPAT_MODE_IE8)
    THEN [objs |-> objs_, hres |-> E_NOTIMPL]
    ELSE CASE get_dispid_type(id) = "DISPEXPROP_DYNAMIC" ->
                IF id - DISPID_DYNPROP_0 >= Len(objs_[o].props) THEN [objs |-> objs_, hres |-> S_OK]
                ELSE IF DYNPROP_PROTREF \notin objs_[o].props[id - DISPID_DYNPROP_0 + 1].flags
                THEN [objs |-> MarkDeleted(VariantClear(objs_, o, id - DISPID_DYNPROP_0 + 1),
                                           o, id - DISPID_DYNPROP_0 + 1),
                      hres |-> S_OK]
                ELSE [objs |-> objs_, hres |-> S_OK]
           [] get_dispid_type(id) = "DISPEXPROP_BUILTIN" ->
                IF get_builtin_func(objs_[o].info, id) = 0
                THEN [objs |-> objs_, hres |-> DISP_E_MEMBERNOTFOUND]
                ELSE [objs |-> objs_, hres |-> S_OK]
           [] OTHER -> [objs |-> objs_, hres |-> S_OK]

\* remove_attribute for custom identifiers and for dynamic identifiers of
\* slots the store holds (it does not test idx against prop_cnt); builtin
\* identifiers go on to the member's setter, which is not followed here.
remove_attribute(objs_, o, id) ==
    IF get_dispid_type(id) = "DISPEXPROP_CUSTOM"
    THEN [objs |-> objs_, hres |-> E_NOTIMPL, success |-> FALSE]
    ELSE IF DYNPROP_PROTREF \notin objs_[o].props[id - DISPID_DYNPROP_0 + 1].flags
    THEN [objs |-> MarkDeleted(VariantClear(objs_, o, id - DISPID_DYNPROP_0 + 1),
                               o, id - DISPID_DYNPROP_0 + 1),
          hres |-> S_OK, success |-> TRUE]
    ELSE [objs |-> objs_, hres |-> S_OK, success |-> TRUE]

DispatchEx_DeleteMemberByDispID(objs_, o, id) == dispex_delete_prop(objs_, o, id)

\* Lines 2700-2706: g is what GetDispID answered without fdexNameEnsure.
DeleteFound(g, o, mode) ==
    IF FAILED(g.hres)
    THEN [objs |-> g.objs,
          hres |-> IF ModeRank(mode) < ModeRank(COMPAT_MODE_IE8) THEN E_NOTIMPL ELSE g.hres]
    ELSE dispex_delete_prop(g.objs, o, g.id)

DispatchEx_DeleteMemberByName(objs_, o, name, grfdex) ==
    DeleteFound(DispatchEx_GetDispID(objs_, o, name, grfdex \ {fdexNameEnsure}), o,
                dispex_compat_mode(objs_, o))

\* next_dynamic_id: idx counts from 0.
RECURSIVE next_dynamic_id(_, _)
next_dynamic_id(props, idx) ==
    IF idx < Len(props)
       /\ props[idx + 1].flags \cap {DYNPROP_DELETED, DYNPROP_HIDDEN, DYNPROP_PROTREF} # {}
    THEN next_dynamic_id(props, idx + 1)
    ELSE IF idx = Len(props) THEN [hres |-> S_FALSE, pid |-> DISPID_STARTENUM]
    ELSE [hres |-> S_OK, pid |-> DISPID_DYNPROP_0 + idx]

\* Every entry of the table is handed out.
EnumeratesEveryEntry(func) == TRUE

\* The test of line 2826: only entries that are neither methods nor hidden.
EnumeratesEntry(func) == func.func_disp_idx = -1

\* The scan of lines 2825-2831 from the entry at index k (from 1): the index
\* of the next entry handed out, or 0.
RECURSIVE NextBuiltin(_, _)
NextBuiltin(funcs, k) ==
    IF k > Len(funcs) THEN 0
    ELSE IF EnumeratesEntry(funcs[k]) THEN k
    ELSE NextBuiltin(funcs, k + 1)

\* next_dynamic_id with the objects, which it leaves alone.
NextDynamic(objs_, o, idx) ==
    [objs |-> objs_] @@ next_dynamic_id(objs_[o].props, idx)

\* Lines 2836-2845: h is what the next_dispid hook answered, S_FALSE where
\* the class has none.
AfterHook(h, objs_, o) ==
    IF h.hres # S_FALSE THEN [objs |-> objs_, hres |-> h.hres, pid |-> h.pid]
    ELSE IF Len(objs_[o].props) # 0 THEN NextDynamic(objs_, o, 0)
    ELSE [objs |-> objs_, hres |-> S_FALSE, pid |-> DISPID_STARTENUM]

\* Lines 2836-2840: the hook is asked for the custom member after id.
CustomPhase(objs_, o, id) ==
    AfterHook(IF has_vtbl(objs_[o].info.desc) THEN vtbl_next_dispid(objs_[o].info.desc, id)
              ELSE [hres |-> S_FALSE, pid |-> DISPID_STARTENUM],
              objs_, o)

\* Lines 2825-2834: k is the index of the next builtin entry handed out, or 0.
AfterBuiltinScan(objs_, o, k) ==
    IF k # 0 THEN [objs |-> objs_, hres |-> S_OK, pid |-> objs_[o].info.funcs[k].id]
    ELSE CustomPhase(objs_, o, DISPID_STARTENUM)

\* Lines 2818-2822: found is the index get_builtin_func answered for id, or 0.
AfterCursor(objs_, o, found) ==
    IF found = 0 THEN [objs |-> objs_, hres |-> DISP_E_MEMBERNOTFOUND, pid |-> 0]
    ELSE AfterBuiltinScan(objs_, o, NextBuiltin(objs_[o].info.funcs, found + 1))

DispatchEx_GetNextDispID(objs_, o, id) ==
    IF is_dynamic_dispid(id)
    THEN IF Len(objs_[o].props) <= id - DISPID_DYNPROP_0
         THEN [objs |-> objs_, hres |-> DISP_E_MEMBERNOTFOUND, pid |-> 0]
         ELSE NextDynamic(objs_, o, id - DISPID_DYNPROP_0 + 1)
    ELSE IF is_custom_dispid(id) THEN CustomPhase(objs_, o, id)
    ELSE IF id = DISPID_STARTENUM
    THEN AfterBuiltinScan(objs_, o, NextBuiltin(objs_[o].info.funcs, 1))
    ELSE AfterCursor(objs_, o, get_builtin_func(objs_[o].info, id))

(***************************************************************************)
(* Script calls on an instance and on its legacy prototype.                *)
(***************************************************************************)
\* Slots an instance's store, and its prototype's, may grow to.
MaxProps == 2
MaxProtoProps == 1

ObjIds == {"inst", "proto"}
\* The classes whose instances scripts work on.
DispClasses == {"Widget"}
DispModes == {COMPAT_MODE_IE7, COMPAT_MODE_IE8, COMPAT_MODE_IE9}

n_x == <<120>>
n_X == <<88>>

\* init_dispatch: no dynamic properties yet; prototype is the legacy prototype or NULL.
NewObj(info, prototype) ==
    [info |-> info, prototype |-> prototype, props |-> <<>>]

\* The objects a script can reach: the instance and its prototype, if it has one.
LiveObjs == {"inst"} \cup ({objs["inst"].prototype} \ {NoObj})

Cap(o) == IF o = "inst" THEN MaxProps ELSE MaxProtoProps

\* The names, flags and identifiers scripts pass.
LookupNames(o) ==
    {n_x, n_X} \cup { objs[o].info.funcs[k].name : k \in 1..Len(objs[o].info.funcs) }
       \cup { CustomNames(objs[o].info.desc)[k] : k \in 1..Len(CustomNames(objs[o].info.desc)) }
CustomIds(o) ==
    { MSHTML_DISPID_CUSTOM_MIN + k : k \in 0..Len(CustomNames(objs[o].info.desc)) }
CaseFlags == { {}, {fdexNameCaseSensitive}, {fdexNameCaseInsensitive} }
GrfdexValues == CaseFlags \cup { f \cup {fdexNameEnsure} : f \in CaseFlags }
BuiltinIds(o) == { objs[o].info.funcs[k].id : k \in 1..Len(objs[o].info.funcs) }
DynamicIds(o) == { DISPID_DYNPROP_0 + k : k \in 0..Cap(o) }
UnknownId == 99
ProbeDispIds(o) ==
    BuiltinIds(o) \cup DynamicIds(o) \cup CustomIds(o) \cup {DISPID_STARTENUM, UnknownId}
PutValues == { Variant("VT_I4", 1) }
\* wFlags, rgvarg and whether res is NULL.
InvokeCalls ==
    { <<DISPATCH_PROPERTYGET, <<>>, FALSE>>, <<DISPATCH_METHOD, <<>>, TRUE>>,
      <<DISPATCH_METHOD_OR_PROPERTYGET, <<>>, FALSE>>,
      <<DISPATCH_METHOD_OR_PROPERTYGET, <<>>, TRUE>>,
      <<DISPATCH_PROPERTYPUT, <<>>, TRUE>> }
    \cup { <<DISPATCH_PROPERTYPUT, <<v>>, TRUE>> : v \in PutValues }

\* What is kept of the most recent call: which it was, what it returned and
\* what it did to the slot it found.
NoLast == [op |-> "", hres |-> "", fix |-> "none"]
Last(op, hres, fix) == [op |-> op, hres |-> hres, fix |-> fix]

\* The call op has answered r: the objects are as it left them.
Returns(op, r, fix) ==
    /\ \A q \in ObjIds : Len(r.objs[q].props) <= Cap(q)
    /\ objs' = r.objs
    /\ last' = Last(op, r.hres, fix)
    /\ UNCHANGED <<info_cache, built, cs_owner, pc, call, returned, inv>>

\* The same for a call that answers with a fix.
ReturnsFix(op, r) == Returns(op, r, r.fix)

GetDispID(o, name, grfdex) ==
    /\ o \in LiveObjs
    /\ ReturnsFix("GetDispID", DispatchEx_GetDispID(objs, o, name, grfdex))

GetMemberName(o, id) ==
    /\ o \in LiveObjs
    /\ Returns("GetMemberName", DispatchEx_GetMemberName(objs, o, id), "none")

InvokeEx(o, id, wFlags, rgvarg, res_null) ==
    /\ o \in LiveObjs
    /\ ReturnsFix(wFlags, dispex_invoke(objs, o, id, wFlags, rgvarg, res_null, S_OK))

DeleteMemberByDispID(o, id) ==
    /\ o \in LiveObjs
    /\ Returns("DeleteMemberByDispID", DispatchEx_DeleteMemberByDispID(objs, o, id), "none")

DeleteMemberByName(o, name, grfdex) ==
    /\ o \in LiveObjs
    /\ Returns("DeleteMemberByName", DispatchEx_DeleteMemberByName(objs, o, name, grfdex), "none")

GetNextDispID(o, id) ==
    /\ o \in LiveObjs
    /\ Returns("GetNextDispID", DispatchEx_GetNextDispID(objs, o, id), "none")

\* An instance of class c in some compat mode.  Below IE9 it gets the
\* legacy prototype of its class, whose table is a copy of the class's and
\* which has no prototype itself; from IE9 on it is made without a window.
InitObjects(cs) ==
    \E c \in cs, mode \in DispModes :
       \E tbl \in PreprocessCache[c][0] :
          LET info == [tbl EXCEPT !.compat_mode = mode]
          IN  objs = [o \in ObjIds |->
                        IF o = "inst"
                        THEN NewObj(info, IF ModeRank(mode) < ModeRank(COMPAT_MODE_IE9)
                                          THEN "proto" ELSE NoObj)
                        ELSE NewObj(info, NoObj)]

\* The calls start on a fresh instance of one of the classes cs; nothing else
\* of the module is running.
ObjectsInit(cs) ==
    /\ info_cache = [s \in Slots |-> NullTable]
    /\ built = [s \in Slots |-> 0]
    /\ cs_owner = NoThread
    /\ pc = [t \in Threads |-> "idle"]
    /\ call = [t \in Threads |-> NoCall]
    /\ returned = [s \in Slots |-> {}]
    /\ inv = NoInvoke
    /\ last = NoLast
    /\ InitObjects(cs)

DispInit == ObjectsInit(DispClasses)

DispNext ==
    \/ \E o \in ObjIds : \E name \in LookupNames(o), grfdex \in GrfdexValues :
          GetDispID(o, name, grfdex)
    \/ \E id \in ProbeDispIds("inst") : GetMemberName("inst", id)
    \/ \E o \in ObjIds : \E id \in DynamicIds(o) \cup {MSHTML_DISPID_CUSTOM_MIN} :
          \E c \in InvokeCalls : InvokeEx(o, id, c[1], c[2], c[3])
    \/ \E o \in ObjIds : \E id \in ProbeDispIds(o) : DeleteMemberByDispID(o, id)
    \/ \E name \in LookupNames("inst"), grfdex \in CaseFlags :
          DeleteMemberByName("inst", name, grfdex)
    \/ \E id \in ProbeDispIds("inst") : GetNextDispID("inst", id)

SpecDisp == DispInit /\ [][DispNext]_vars

(***************************************************************************)
(* Names and enumeration over every class: scripts look names up on the    *)
(* instance (creating dynamic properties where they ask to), ask for the   *)
(* name of an identifier and step through the enumeration.                 *)
(***************************************************************************)
NamesInit == ObjectsInit(AllClasses)

NamesNext ==
    \/ \E name \in LookupNames("inst"), grfdex \in GrfdexValues :
          GetDispID("inst", name, grfdex)
    \/ \E id \in ProbeDispIds("inst") : GetMemberName("inst", id)
    \/ \E id \in ProbeDispIds("inst") : GetNextDispID("inst", id)

SpecNames == NamesInit /\ [][NamesNext]_vars

(***************************************************************************)
(* Properties of the dynamic store and the router, checked under SpecDisp. *)
(***************************************************************************)
\* The names that no class table holds: get_id reaches the dynamic store.
DynNames == {n_x, n_X}
EnsureFlags == { f \cup {fdexNameEnsure} : f \in CaseFlags }

\* The two ways a script deletes the property: by the identifier the create
\* returned, or by the name and case flags it was created with.
DeleteWays == {"id", "name"}
DeleteCreated(objs_, o, way, id, name, grfdex) ==
    IF way = "id" THEN DispatchEx_DeleteMemberByDispID(objs_, o, id)
    ELSE DispatchEx_DeleteMemberByName(objs_, o, name, grfdex)

\* c1 is what the first create answered, d what the delete answered and c2
\* what the second create answered.
SecondCreateReuses(c1, c2, o) ==
    /\ c2.hres = S_OK
    /\ c2.id = c1.id
    /\ Len(c2.objs[o].props) = Len(c1.objs[o].props)

AfterDelete(c1, d, o, name, grfdex) ==
    SecondCreateReuses(c1, DispatchEx_GetDispID(d.objs, o, name, grfdex), o)

AfterFirstCreate(c1, o, way, name, grfdex) ==
    c1.hres = S_OK =>
       AfterDelete(c1, DeleteCreated(c1.objs, o, way, c1.id, name, grfdex), o, name, grfdex)

\* C3: from every state of the store, a create of a dynamic property (get_id
\* with fdexNameEnsure), a delete of it and the same create again give the
\* same identifier, and the second create adds no slot to the store.
C3_RecreateReusesSlot ==
    \A o \in LiveObjs, name \in DynNames, grfdex \in EnsureFlags, way \in DeleteWays :
       AfterFirstCreate(DispatchEx_GetDispID(objs, o, name, grfdex), o, way, name, grfdex)

\* The case of C3 has happened: a create found its slot deleted and revived it.
C3_Witness ==
    /\ last.op = "GetDispID"
    /\ last.fix = "revived"
    /\ last.hres = S_OK

\* The reads of a dynamic slot: GET, CALL and both at once.
ReadFlags == {DISPATCH_PROPERTYGET, DISPATCH_METHOD, DISPATCH_METHOD_OR_PROPERTYGET}
SlotIds(o) == 1..Len(objs[o].props)

\* Slot i of o refers to a slot of o's prototype that has since been deleted.
StaleProtRef(o, i) ==
    /\ objs[o].prototype # NoObj
    /\ DYNPROP_PROTREF \in objs[o].props[i].flags
    /\ DYNPROP_DELETED \in objs[objs[o].prototype].props[objs[o].props[i].var.val].flags

\* r is what the read of slot i of o answered: not found, the slot now
\* DELETED and nothing else, the prototype's store as it was.
ReadFindsDeleted(r, o, i) ==
    /\ r.hres = DISP_E_MEMBERNOTFOUND
    /\ r.objs[o].props[i].flags = {DYNPROP_DELETED}
    /\ r.objs[objs[o].prototype] = objs[objs[o].prototype]

\* C8: when an instance slot refers to a slot of the prototype and that slot
\* has been deleted, a GET or CALL on the instance's identifier answers
\* DISP_E_MEMBERNOTFOUND and leaves the instance slot DELETED; the prototype
\* looked at is the instance's own, which has no prototype itself.
C8_StaleRefReadsNotFound ==
    /\ \A o \in LiveObjs : \A i \in SlotIds(o), wFlags \in ReadFlags :
          StaleProtRef(o, i) =>
             ReadFindsDeleted(dispex_invoke(objs, o, DISPID_DYNPROP_0 + (i - 1), wFlags,
                                            <<>>, FALSE, S_OK), o, i)
    /\ \A o \in LiveObjs :
          objs[o].prototype # NoObj => objs[objs[o].prototype].prototype = NoObj

\* The case of C8 has happened: a read found the reference stale, turned the
\* slot to DELETED and answered not found.
C8_Witness ==
    /\ last.op \in ReadFlags
    /\ last.fix = "to_deleted"
    /\ last.hres = DISP_E_MEMBERNOTFOUND

\* The prototype p holds a slot of exactly this name that is not deleted.
HasLiveProp(objs_, p, name) ==
    \E k \in 1..Len(objs_[p].props) :
       /\ objs_[p].props[k].name = name
       /\ DYNPROP_DELETED \notin objs_[p].props[k].flags

\* No step of the enumeration of o answers id, wherever it stands.
NeverEnumerated(objs_, o, id) ==
    \A cur \in ProbeDispIds(o) :
       DispatchEx_GetNextDispID(objs_, o, cur).hres = S_OK
          => DispatchEx_GetNextDispID(objs_, o, cur).pid # id

\* n is what get_name answers for id after the delete: the name the slot had
\* when it was created, which matches the name asked for.
NameKept(n, created, id, name, grfdex) ==
    /\ n.hres = S_OK
    /\ n.name = created[id - DISPID_DYNPROP_0 + 1].name
    /\ wcsicmp(n.name, name) = 0
    /\ fdexNameCaseInsensitive \notin grfdex => n.name = name

\* g is what get_id without fdexNameEnsure answers after the delete.
LookupFails(g) == g.hres = DISP_E_UNKNOWNNAME

\* The lookup fails unless the prototype of o holds a live slot of the deleted
\* slot's name; then it answers the same identifier, whose slot now refers to
\* the prototype's.
LookupFailsOrRefers(g, objs_, o, id) ==
    IF objs_[o].prototype # NoObj
       /\ HasLiveProp(objs_, objs_[o].prototype, objs_[o].props[id - DISPID_DYNPROP_0 + 1].name)
    THEN /\ g.hres = S_OK
         /\ g.id = id
         /\ g.objs[o].props[id - DISPID_DYNPROP_0 + 1].flags = {DYNPROP_PROTREF}
    ELSE LookupFails(g)

\* d is what the delete answered; created is the store as the create left it.
AfterDeleted(d, created, o, id, name, grfdex, strict) ==
    d.hres = S_OK =>
       /\ NeverEnumerated(d.objs, o, id)
       /\ IF strict
          THEN LookupFails(DispatchEx_GetDispID(d.objs, o, name, grfdex \ {fdexNameEnsure}))
          ELSE LookupFailsOrRefers(DispatchEx_GetDispID(d.objs, o, name,
                                                        grfdex \ {fdexNameEnsure}),
                                   d.objs, o, id)
       /\ NameKept(DispatchEx_GetMemberName(d.objs, o, id), created, id, name, grfdex)

\* a is what the assignment answered.
AfterAssigned(a, created, o, way, id, name, grfdex, strict) ==
    a.hres = S_OK =>
       AfterDeleted(DeleteCreated(a.objs, o, way, id, name, grfdex \ {fdexNameEnsure}),
                    created, o, id, name, grfdex, strict)

\* c is what the create answered.
AfterCreated(c, o, way, v, name, grfdex, strict) ==
    c.hres = S_OK =>
       AfterAssigned(dispex_invoke(c.objs, o, c.id, DISPATCH_PROPERTYPUT, <<v>>, TRUE, S_OK),
                     c.objs[o].props, o, way, c.id, name, grfdex, strict)

CreateAssignDelete(strict) ==
    \A o \in LiveObjs, name \in DynNames, grfdex \in EnsureFlags, way \in DeleteWays,
       v \in PutValues :
       AfterCreated(DispatchEx_GetDispID(objs, o, name, grfdex), o, way, v, name, grfdex, strict)

\* C9 as the specification has it: after a dynamic property is created,
\* assigned and deleted, no step of the enumeration answers its identifier,
\* get_id of the name without fdexNameEnsure fails with DISP_E_UNKNOWNNAME, and
\* get_name of the identifier still answers the property's name.
C9_DeletedIsGone == CreateAssignDelete(TRUE)

\* C9: after a dynamic property is created, assigned and deleted, no step of
\* the enumeration answers its identifier and get_name of the identifier still
\* answers the property's name; get_id of the name without fdexNameEnsure
\* fails with DISP_E_UNKNOWNNAME unless the prototype holds a live dynamic
\* property of that name, and then it answers the same identifier, whose slot
\* now refers to the prototype's property.
C9_DeletedIsGoneUnlessInherited == CreateAssignDelete(FALSE)

\* The case of C9 has happened: a lookup without fdexNameEnsure found the
\* deleted slot and, the prototype holding the name, turned it into a reference.
C9_Witness ==
    /\ last.op = "GetDispID"
    /\ last.fix = "to_protref"
    /\ last.hres = S_OK
    /\ \E i \in SlotIds("inst") : objs["inst"].props[i].flags = {DYNPROP_PROTREF}

(***************************************************************************)
(* Properties of names and enumeration, checked under SpecNames.           *)
(***************************************************************************)
\* The names asked for: those of the class, in either case where two classes
\* differ by case, and names no class has.
RoundTripNames == LookupNames("inst") \cup {n_area, n_Area}

\* n is what get_name answered for the identifier get_id gave for name.
NameComesBack(n, name, grfdex) ==
    /\ n.hres = S_OK
    /\ wcsicmp(n.name, name) = 0
    /\ (fdexNameCaseSensitive \in grfdex /\ fdexNameCaseInsensitive \notin grfdex)
          => n.name = name

\* g is what get_id answered for name.
AfterGetId(g, o, name, grfdex) ==
    (g.hres = S_OK /\ get_dispid_type(g.id) \in {"DISPEXPROP_BUILTIN", "DISPEXPROP_DYNAMIC"})
       => NameComesBack(DispatchEx_GetMemberName(g.objs, o, g.id), name, grfdex)

\* C4: whenever get_id of a name succeeds with a builtin or a dynamic
\* identifier, get_name of that identifier succeeds with a name equal to the
\* one asked for but for case, and equal to it character for character when
\* the lookup was case-sensitive.
C4_NameRoundTrip ==
    \A name \in RoundTripNames, grfdex \in GrfdexValues :
       AfterGetId(DispatchEx_GetDispID(objs, "inst", name, grfdex), "inst", name, grfdex)

MaxWalk == 8

\* The identifiers the enumeration of o answers from the cursor id on, until
\* a step answers something other than S_OK.
RECURSIVE EnumWalk(_, _, _, _)
WalkOn(r, objs_, o, fuel) ==
    IF r.hres = S_OK THEN <<r.pid>> \o EnumWalk(objs_, o, r.pid, fuel - 1) ELSE <<>>

EnumWalk(objs_, o, id, fuel) ==
    IF fuel = 0 THEN <<>>
    ELSE WalkOn(DispatchEx_GetNextDispID(objs_, o, id), objs_, o, fuel)

Fresh(o) == Len(objs[o].props) = 0

\* The identifiers of the table's entries that satisfy want, in table order.
RECURSIVE EntryIds(_, _, _)
EntryIds(funcs, k, methods) ==
    IF k > Len(funcs) THEN <<>>
    ELSE (IF methods
          THEN IF funcs[k].func_disp_idx >= 0 THEN <<funcs[k].id>> ELSE <<>>
          ELSE IF funcs[k].func_disp_idx = -1 THEN <<funcs[k].id>> ELSE <<>>)
         \o EntryIds(funcs, k + 1, methods)

Once(seq) == \A i, j \in 1..Len(seq) : seq[i] = seq[j] => i = j
Range(seq) == { seq[i] : i \in 1..Len(seq) }

\* w is what the enumeration answered, ids what it should.
YieldsJust(w, ids) ==
    /\ Once(w)
    /\ Range(w) = Range(ids)
    /\ \A i \in 1..Len(w) : ~is_dynamic_dispid(w[i])

\* C10 as the specification has it: the enumeration of a fresh instance from
\* DISPID_STARTENUM answers every method of the class's table once, and no
\* dynamic identifier.
C10_EnumeratesMethods ==
    Fresh("inst") =>
       YieldsJust(EnumWalk(objs, "inst", DISPID_STARTENUM, MaxWalk),
                  EntryIds(objs["inst"].info.funcs, 1, TRUE))

\* The identifiers of seq that lie in the builtin space.
IsBuiltinId(id) == get_dispid_type(id) = "DISPEXPROP_BUILTIN"
BuiltinPart(seq) == SelectSeq(seq, IsBuiltinId)

\* C10: the enumeration of a fresh instance from DISPID_STARTENUM answers, of
\* the class's table, the properties that are not hidden, each once and in
\* table order, no method and no dynamic identifier (a class with the single
\* method area answers nothing of its table); custom members of the class's
\* hook may follow.
C10_EnumeratesProperties ==
    Fresh("inst") =>
       /\ YieldsJust(BuiltinPart(EnumWalk(objs, "inst", DISPID_STARTENUM, MaxWalk)),
                     EntryIds(objs["inst"].info.funcs, 1, FALSE))
       /\ BuiltinPart(EnumWalk(objs, "inst", DISPID_STARTENUM, MaxWalk))
             = EntryIds(objs["inst"].info.funcs, 1, FALSE)
       /\ Once(EnumWalk(objs, "inst", DISPID_STARTENUM, MaxWalk))
       /\ \A i \in 1..Len(EnumWalk(objs, "inst", DISPID_STARTENUM, MaxWalk)) :
             ~is_dynamic_dispid(EnumWalk(objs, "inst", DISPID_STARTENUM, MaxWalk)[i])
       /\ Range(EnumWalk(objs, "inst", DISPID_STARTENUM, MaxWalk))
             \cap Range(EntryIds(objs["inst"].info.funcs, 1, TRUE)) = {}

\* The case of C10 has happened: a step of the enumeration of a fresh
\* instance whose class has a method came to the end of the table.
C10_Witness ==
    /\ Fresh("inst")
    /\ last.op = "GetNextDispID"
    /\ last.hres = S_FALSE
    /\ EntryIds(objs["inst"].info.funcs, 1, TRUE) # <<>>

\* What the step that ends the enumeration from the cursor id answers, or
\* "more" when fuel steps have all answered S_OK.
RECURSIVE EnumEnd(_, _, _, _)
EndOn(r, objs_, o, fuel) ==
    IF r.hres = S_OK THEN EnumEnd(objs_, o, r.pid, fuel - 1) ELSE r.hres

EnumEnd(objs_, o, id, fuel) ==
    IF fuel = 0 THEN "more"
    ELSE EndOn(DispatchEx_GetNextDispID(objs_, o, id), objs_, o, fuel)

\* The phase an identifier belongs to: builtin, custom, dynamic.
Phase(id) ==
    CASE get_dispid_type(id) = "DISPEXPROP_BUILTIN" -> 1
      [] get_dispid_type(id) = "DISPEXPROP_CUSTOM"  -> 2
      [] get_dispid_type(id) = "DISPEXPROP_DYNAMIC" -> 3

PhasesInOrder(w) == \A i, j \in 1..Len(w) : i < j => Phase(w[i]) <= Phase(w[j])

\* The members of class c in the order its interfaces declare them, before
\* preprocess_dispex_data sorts the table.
Declared(c) == ProcessTids([funcs |-> <<>>, func_disp_cnt |-> 0], iface_tids(c), 1, 0).funcs

\* w is the enumeration of o from DISPID_STARTENUM, end what ended it.
ThreePhases(w, end, o) ==
    /\ PhasesInOrder(w)
    /\ BuiltinPart(w) = EntryIds(Declared(objs[o].info.desc), 1, FALSE)
    /\ Once(w)
    /\ end = S_FALSE

\* C11: the enumeration from DISPID_STARTENUM answers builtin members first,
\* in the order the class declares them, then the custom members of the
\* class's hook, then dynamic properties; it never goes back to an earlier
\* phase, answers no identifier twice and comes to S_FALSE after finitely
\* many steps.
C11_EnumerationPhases ==
    ThreePhases(EnumWalk(objs, "inst", DISPID_STARTENUM, MaxWalk),
                EnumEnd(objs, "inst", DISPID_STARTENUM, MaxWalk), "inst")

\* Some entry of the table has this name, case apart.
TableHasName(info, name) ==
    \E k \in 1..Len(info.funcs) : wcsicmp(info.funcs[k].name, name) = 0

\* g is what get_id answered; the store is as it was.
StoreUntouched(g) == g.objs = objs

\* g answers the identifier of a table entry of that name, case apart.
AnswersTableEntry(g, info, name) ==
    /\ g.hres = S_OK
    /\ get_dispid_type(g.id) = "DISPEXPROP_BUILTIN"
    /\ \E k \in 1..Len(info.funcs) :
          info.funcs[k].id = g.id /\ wcsicmp(info.funcs[k].name, name) = 0

\* g answers what the hook h answered.
AnswersHook(g, h) ==
    /\ g.hres = S_OK
    /\ g.id = h.id
    /\ get_dispid_type(g.id) = "DISPEXPROP_CUSTOM"

\* t is what the search of the name table answered and h what the get_dispid
\* hook answers (not found where the class has none).
ResolvedInOrder(g, t, h, info, name) ==
    /\ t.hres = S_OK => AnswersTableEntry(g, info, name) /\ g.id = t.id /\ StoreUntouched(g)
    /\ (t.hres # S_OK /\ h.hres = S_OK) => AnswersHook(g, h) /\ StoreUntouched(g)
    /\ (t.hres # S_OK /\ h.hres # S_OK /\ g.hres = S_OK)
          => get_dispid_type(g.id) = "DISPEXPROP_DYNAMIC"

\* C12: get_id asks the table of builtin members first, then the class's
\* hook, then the dynamic store: when the table or the hook knows the name,
\* its identifier is what get_id answers and the store is left as it was,
\* with fdexNameEnsure too.
C12_BuiltinThenCustomThenDynamic ==
    \A name \in RoundTripNames, grfdex \in GrfdexValues :
       ResolvedInOrder(DispatchEx_GetDispID(objs, "inst", name, grfdex),
                       BuiltinNameSearch(objs["inst"].info, name, grfdex, 0,
                                         Len(objs["inst"].info.funcs) - 1),
                       IF has_vtbl(objs["inst"].info.desc)
                       THEN vtbl_get_dispid(objs["inst"].info.desc, name, grfdex)
                       ELSE [hres |-> DISP_E_UNKNOWNNAME, id |-> 0],
                       objs["inst"].info, name)

\* The case of C12 has happened: a get_id succeeded on an instance of a class
\* with a hook while its store holds nothing, so the table or the hook knew
\* the name.
C12_Witness ==
    /\ last.op = "GetDispID"
    /\ last.hres = S_OK
    /\ Len(objs["inst"].props) = 0
    /\ has_vtbl(objs["inst"].info.desc)

(***************************************************************************)
(* Identifiers of dynamic properties for stores of any size.  Only the     *)
(* number of slots counts here, so the store is kept as its prop_cnt: a    *)
(* create of a name the store does not hold appends a slot, and the        *)
(* identifier of the slot at index idx is DISPID_DYNPROP_0 + idx.          *)
(***************************************************************************)
\* *id = DISPID_DYNPROP_0 + (prop - This->dynamic_data->props), as a DISPID.
dynprop_id(idx) == DISPID_DYNPROP_0 + idx

\* The number of identifiers of the dynamic range.
DynRange == DISPID_DYNPROP_MAX - DISPID_DYNPROP_0 + 1

\* Stores are followed from empty and from DynRange less this many slots, for
\* this many appends.
NearEdge == 3
MaxAppends == 8

IdStarts == {0, DynRange - NearEdge}
IdProbes ==
    {DISPID_STARTENUM, DISPID_VALUE, UnknownId, DISPID_DYNPROP_0 - 1, DISPID_DYNPROP_0,
     DISPID_DYNPROP_MAX, MSHTML_DISPID_CUSTOM_MIN, MSHTML_DISPID_CUSTOM_MAX,
     MSHTML_DISPID_CUSTOM_MAX + 1, -2147418112}

NoId == [op |-> "", idx |-> 0, id |-> 0]

\* get_dynamic_prop with fdexNameEnsure for a name the store does not hold
\* (lines 836-849), and the identifier GetDispID or dispex_get_dynid makes of
\* the new slot.
IdAppend ==
    /\ objs.appends < MaxAppends
    /\ objs' = [prop_cnt |-> objs.prop_cnt + 1, appends |-> objs.appends + 1]
    /\ last' = [op |-> "append", idx |-> objs.prop_cnt, id |-> dynprop_id(objs.prop_cnt)]
    /\ UNCHANGED <<info_cache, built, cs_owner, pc, call, returned, inv>>

\* get_dynamic_prop for the name of the slot at index idx, and its identifier.
IdLookup(idx) ==
    /\ idx \in 0..(objs.prop_cnt - 1)
    /\ last' = [op |-> "lookup", idx |-> idx, id |-> dynprop_id(idx)]
    /\ UNCHANGED <<info_cache, built, cs_owner, pc, call, returned, inv, objs>>

IdsInit ==
    /\ info_cache = [s \in Slots |-> NullTable]
    /\ built = [s \in Slots |-> 0]
    /\ cs_owner = NoThread
    /\ pc = [t \in Threads |-> "idle"]
    /\ call = [t \in Threads |-> NoCall]
    /\ returned = [s \in Slots |-> {}]
    /\ inv = NoInvoke
    /\ last = NoId
    /\ \E n \in IdStarts : objs = [prop_cnt |-> n, appends |-> 0]

IdsNext ==
    \/ IdAppend
    \/ \E idx \in {0, 1} \cup {objs.prop_cnt - k : k \in 1..MaxAppends} : IdLookup(idx)

SpecIds == IdsInit /\ [][IdsNext]_vars

\* id lies in exactly one of the three spaces, and get_dispid_type says which.
InOneSpace(id) ==
    /\ ~(is_dynamic_dispid(id) /\ is_custom_dispid(id))
    /\ get_dispid_type(id) = "DISPEXPROP_DYNAMIC" <=> is_dynamic_dispid(id)
    /\ get_dispid_type(id) = "DISPEXPROP_CUSTOM" <=> is_custom_dispid(id)
    /\ get_dispid_type(id) = "DISPEXPROP_BUILTIN"
          <=> (~is_dynamic_dispid(id) /\ ~is_custom_dispid(id))

\* C13: every identifier lies in exactly one of the builtin, custom and
\* dynamic spaces, and the identifier answered for a dynamic property is
\* DISPID_DYNPROP_0 plus the index of its slot, lies in the dynamic range and
\* is not taken for builtin or custom, whatever the number of slots.
C13_DynamicIdsInRange ==
    /\ \A id \in IdProbes \cup {last.id} : InOneSpace(id)
    /\ last.op \in {"append", "lookup"} =>
          /\ last.id = DISPID_DYNPROP_0 + last.idx
          /\ is_dynamic_dispid(last.id)
          /\ get_dispid_type(last.id) = "DISPEXPROP_DYNAMIC"

(***************************************************************************)
(* More properties of the dynamic store, checked under SpecDisp.           *)
(***************************************************************************)
\* From one state to the next no store loses a slot and no slot changes its
\* name.
StoreOnlyGrows ==
    \A o \in ObjIds :
       /\ Len(objs'[o].props) >= Len(objs[o].props)
       /\ \A i \in 1..Len(objs[o].props) : objs'[o].props[i].name = objs[o].props[i].name

\* C14: over any sequence of get_id, get, put, call, delete and enumeration
\* the number of slots of a store never goes down and the name held at an
\* index never changes, so an identifier keeps naming the same slot.
C14_AppendOnly == [][StoreOnlyGrows]_vars

\* The case of C14 has happened: a delete has succeeded on a store of two
\* slots and the deleted slot is still there.
C14_Witness ==
    /\ last.op \in {"DeleteMemberByDispID", "DeleteMemberByName"}
    /\ last.hres = S_OK
    /\ Len(objs["inst"].props) = MaxProps
    /\ \E i \in SlotIds("inst") : DYNPROP_DELETED \in objs["inst"].props[i].flags

\* The objects with slot i of o deleted: its value released, DYNPROP_DELETED
\* added to its flags, and nothing else changed.
WithSlotDeleted(o, i) ==
    [objs EXCEPT ![o].props[i] =
        Slot(objs[o].props[i].name, VEmpty, objs[o].props[i].flags \cup {DYNPROP_DELETED})]

\* d is what a delete of the dynamic identifier id of o answered: S_OK, a
\* reference to the prototype left alone, any other slot deleted.
DeletesSlot(d, o, id) ==
    /\ d.hres = S_OK
    /\ d.objs = IF id - DISPID_DYNPROP_0 >= Len(objs[o].props) THEN objs
                ELSE IF DYNPROP_PROTREF \in objs[o].props[id - DISPID_DYNPROP_0 + 1].flags
                THEN objs
                ELSE WithSlotDeleted(o, id - DISPID_DYNPROP_0 + 1)

\* d answers E_NOTIMPL and leaves everything as it was.
NotImplemented(d) == d.hres = E_NOTIMPL /\ d.objs = objs

BelowIE8(o) == ModeRank(dispex_compat_mode(objs, o)) < ModeRank(COMPAT_MODE_IE8)

\* C15 as the specification has it: in every compat mode delete(id) of a
\* dynamic identifier answers S_OK, leaves a slot that refers to the
\* prototype alone and otherwise releases the slot's value and sets
\* DYNPROP_DELETED.
C15_DeleteInEveryMode ==
    \A o \in LiveObjs : \A id \in DynamicIds(o) :
       DeletesSlot(dispex_delete_prop(objs, o, id), o, id)

\* C15: in compat mode IE8 and above delete(id) of a dynamic identifier
\* answers S_OK, leaves a slot that refers to the prototype alone and
\* otherwise releases the slot's value and sets DYNPROP_DELETED; below IE8 it
\* answers E_NOTIMPL and changes nothing.  remove_attribute does the former
\* in every mode for a slot the store holds.
C15_DeleteFromIE8 ==
    \A o \in LiveObjs : \A id \in DynamicIds(o) :
       /\ IF BelowIE8(o)
          THEN NotImplemented(dispex_delete_prop(objs, o, id))
          ELSE DeletesSlot(dispex_delete_prop(objs, o, id), o, id)
       /\ id - DISPID_DYNPROP_0 < Len(objs[o].props) =>
             /\ DeletesSlot(remove_attribute(objs, o, id), o, id)
             /\ remove_attribute(objs, o, id).success

\* The case of C15 has happened: a delete by identifier has succeeded and
\* left a slot deleted with its value released, beside a slot that refers to
\* the prototype.
C15_Witness ==
    /\ last.op = "DeleteMemberByDispID"
    /\ last.hres = S_OK
    /\ \E i \in SlotIds("inst") :
          objs["inst"].props[i].flags = {DYNPROP_DELETED} /\ objs["inst"].props[i].var = VEmpty
    /\ \E i \in SlotIds("inst") : DYNPROP_PROTREF \in objs["inst"].props[i].flags

(***************************************************************************)
(* Builtin properties: invoke_builtin_prop for the members that are not    *)
(* functions, on an instance of a class whose table has a property with a  *)
(* setter, one without and a hidden one.  native holds what the object's   *)
(* own getters and setters keep, by member identifier.                     *)
(***************************************************************************)
DISPID_PROPERTYPUT == -3
DISPID_THIS == -613

PropClasses == {"Shape"}

\* DISPPARAMS of a put: the counts, the first named identifier and rgvarg[0].
PutParams(cArgs, cNamedArgs, named, v) ==
    [cArgs |-> cArgs, cNamedArgs |-> cNamedArgs, named |-> named, v |-> v]

\* The test of lines 1555-1556.
InvalidPutArgs(dp) ==
    \/ dp.cArgs # 1
    \/ dp.cNamedArgs = 1 /\ dp.named # DISPID_PROPERTYPUT
    \/ dp.cNamedArgs > 1

\* A missing setter is refused in every mode.
NoSetterAlwaysFails(mode) == E_FAIL

\* Lines 1562-1567: a missing setter.
NoSetter(mode) ==
    IF ModeRank(mode) >= ModeRank(COMPAT_MODE_IE9) THEN S_OK ELSE E_FAIL

\* BUILTIN_TYPES_SWITCH
is_builtin_type(vt) ==
    is_arg_type_supported(vt) \/ vt \in {"VT_VARIANT", "VT_PTR", "VT_UNKNOWN", "VT_UI8"}

\* The call of the setter at put_vtbl_off with the value c converted to
\* (lines 1578-1588); the object's setter keeps the value.
CallSetter(c, func, native) ==
    IF FAILED(c.hres) THEN [hres |-> c.hres, native |-> native]
    ELSE IF ~is_builtin_type(func.prop_vt) THEN [hres |-> E_NOTIMPL, native |-> native]
    ELSE [hres |-> S_OK, native |-> [native EXCEPT ![func.id] = c.v]]

builtin_propput(mode, func, dp, native) ==
    IF InvalidPutArgs(dp) THEN [hres |-> E_INVALIDARG, native |-> native]
    ELSE IF func.put_vtbl_off = 0 THEN [hres |-> NoSetter(mode), native |-> native]
    ELSE IF func.prop_vt # "VT_VARIANT" /\ dp.v.vt # func.prop_vt
    THEN CallSetter(change_type(dp.v, func.prop_vt), func, native)
    ELSE CallSetter([hres |-> S_OK, v |-> dp.v], func, native)

\* builtin_propget: the getter at get_vtbl_off answers what the object keeps.
builtin_propget(func, cArgs, native) ==
    IF cArgs # 0 THEN [hres |-> E_NOTIMPL, res |-> VEmpty]
    ELSE IF ~is_builtin_type(func.prop_vt) THEN [hres |-> E_NOTIMPL, res |-> VEmpty]
    ELSE [hres |-> S_OK,
          res |-> IF func.prop_vt = "VT_VARIANT" THEN native[func.id]
                  ELSE Variant(IF func.prop_vt = "VT_PTR" THEN "VT_DISPATCH" ELSE func.prop_vt,
                               native[func.id].val)]

\* Lines 1828-1834: this_obj does not have the member's interface.
NoInterface(mode, native) ==
    IF ModeRank(mode) >= ModeRank(COMPAT_MODE_IE9)
    THEN [hres |-> E_UNEXPECTED, native |-> native, res |-> VEmpty]
    ELSE [hres |-> S_OK, native |-> native, res |-> VEmpty]

PutResult(p) == [hres |-> p.hres, native |-> p.native, res |-> VEmpty]
GetResult(g, native) == [hres |-> g.hres, native |-> native, res |-> g.res]

\* invoke_builtin_prop for the entry k of the table (0: get_builtin_func_prot
\* found none) when the entry is a property without a hook; qi_ok tells
\* whether this_obj has the interface of the member.
PropEntry(info, k, wFlags, dp, native, qi_ok) ==
    IF k = 0 THEN [hres |-> DISP_E_MEMBERNOTFOUND, native |-> native, res |-> VEmpty]
    ELSE IF ~qi_ok THEN NoInterface(info.compat_mode, native)
    ELSE IF wFlags = DISPATCH_PROPERTYPUT
    THEN PutResult(builtin_propput(info.compat_mode, info.funcs[k], dp, native))
    ELSE GetResult(builtin_propget(info.funcs[k], dp.cArgs, native), native)

invoke_builtin_prop(info, id, wFlags, dp, native, qi_ok) ==
    PropEntry(info, get_builtin_func(info, id), wFlags, dp, native, qi_ok)

\* The members of the table that are properties.
PropertyIds(info) ==
    { info.funcs[k].id : k \in { j \in 1..Len(info.funcs) : info.funcs[j].func_disp_idx < 0 } }

\* What scripts put: the values, and the shapes of DISPPARAMS.
PropValues == { Variant("VT_I4", 1), Variant("VT_BSTR", 2), VEmpty }
PutShapes ==
    { PutParams(c, n, d, v) : c \in 0..2, n \in 0..2,
                              d \in {DISPID_PROPERTYPUT, DISPID_THIS}, v \in PropValues }
NoParams == PutParams(0, 0, DISPID_PROPERTYPUT, VEmpty)

NoPropLast == [op |-> "", id |-> 0, valid |-> TRUE, qi_ok |-> TRUE, hres |-> "", res |-> VEmpty]

PropReturns(op, id, dp, qi_ok, r) ==
    /\ objs' = [objs EXCEPT !["inst"].native = r.native]
    /\ last' = [op |-> op, id |-> id, valid |-> dp = NoParams \/ ~InvalidPutArgs(dp), qi_ok |-> qi_ok,
                 hres |-> r.hres, res |-> r.res]
    /\ UNCHANGED <<info_cache, built, cs_owner, pc, call, returned, inv>>

\* InvokeEx with DISPATCH_PROPERTYPUT on a builtin property.
PropPut(id, dp, qi_ok) ==
    PropReturns(DISPATCH_PROPERTYPUT, id, dp, qi_ok,
                invoke_builtin_prop(objs["inst"].info, id, DISPATCH_PROPERTYPUT, dp,
                                    objs["inst"].native, qi_ok))

\* InvokeEx with DISPATCH_PROPERTYGET on a builtin property.
PropGet(id, qi_ok) ==
    PropReturns(DISPATCH_PROPERTYGET, id, NoParams, qi_ok,
                invoke_builtin_prop(objs["inst"].info, id, DISPATCH_PROPERTYGET, NoParams,
                                    objs["inst"].native, qi_ok))

PropsInit ==
    /\ info_cache = [s \in Slots |-> NullTable]
    /\ built = [s \in Slots |-> 0]
    /\ cs_owner = NoThread
    /\ pc = [t \in Threads |-> "idle"]
    /\ call = [t \in Threads |-> NoCall]
    /\ returned = [s \in Slots |-> {}]
    /\ inv = NoInvoke
    /\ last = NoPropLast
    /\ \E c \in PropClasses, mode \in DispModes :
          \E tbl \in PreprocessCache[c][0] :
             objs = [o \in {"inst"} |->
                       [info |-> [tbl EXCEPT !.compat_mode = mode],
                        native |-> [id \in PropertyIds(tbl) |-> VEmpty]]]

PropsNext ==
    \/ \E id \in PropertyIds(objs["inst"].info) \cup {UnknownId}, dp \in PutShapes,
          qi_ok \in BOOLEAN : PropPut(id, dp, qi_ok)
    \/ \E id \in PropertyIds(objs["inst"].info) \cup {UnknownId}, qi_ok \in BOOLEAN :
          PropGet(id, qi_ok)

SpecProps == PropsInit /\ [][PropsNext]_vars

\* The properties of the instance's table that have no setter.
WithoutSetter(info) ==
    { k \in 1..Len(info.funcs) : info.funcs[k].func_disp_idx < 0 /\ info.funcs[k].put_vtbl_off = 0 }

\* r is what a put without a setter answers in the mode: S_OK from IE9 on,
\* a failure before, and what the object keeps is as it was.
SilentFromIE9(r, mode) ==
    /\ r.native = objs["inst"].native
    /\ IF ModeRank(mode) >= ModeRank(COMPAT_MODE_IE9) THEN r.hres = S_OK ELSE FAILED(r.hres)

\* C16: a put of one argument, named DISPID_PROPERTYPUT if named at all, on a
\* builtin property without a setter answers S_OK and changes nothing in
\* compat mode IE9 and above, and answers a failure in every mode below.
C16_PutWithoutSetter ==
    \A k \in WithoutSetter(objs["inst"].info) :
       \A dp \in { d \in PutShapes : ~InvalidPutArgs(d) } :
          SilentFromIE9(invoke_builtin_prop(objs["inst"].info, objs["inst"].info.funcs[k].id,
                                            DISPATCH_PROPERTYPUT, dp, objs["inst"].native, TRUE),
                        objs["inst"].info.compat_mode)

\* The case of C16 has happened: a well-formed put on a property without a
\* setter has answered S_OK in IE9 mode, after a put through a setter
\* changed what the object keeps.
C16_Witness ==
    /\ last.op = DISPATCH_PROPERTYPUT
    /\ last.qi_ok
    /\ last.valid
    /\ \E k \in WithoutSetter(objs["inst"].info) : objs["inst"].info.funcs[k].id = last.id
    /\ last.hres = S_OK
    /\ objs["inst"].info.compat_mode = COMPAT_MODE_IE9
    /\ \E id \in DOMAIN objs["inst"].native : objs["inst"].native[id] # VEmpty

(***************************************************************************)
(* Function objects.  Two instances of one class and, below IE9, their     *)
(* legacy prototype; the class has one method, so func_disps has one       *)
(* entry.  An entry is [func_obj, val]: func_obj is the number of the      *)
(* function object made for it (0: none yet) and val the slot's value.  A  *)
(* function object is [obj, ref, freed]; held tells which ones the script  *)
(* has a reference to.  A dispatch value is the number of a function       *)
(* object, ScriptFunc for a callable of the script engine, or 0 for NULL.  *)
(***************************************************************************)
MSHTML_E_INVALID_PROPERTY == "MSHTML_E_INVALID_PROPERTY"
CTL_E_ILLEGALFUNCTIONCALL == "CTL_E_ILLEGALFUNCTIONCALL"

FuncInsts == {"a", "b"}
FuncOwners == FuncInsts \cup {"proto"}
FuncObjOf(o) == CASE o = "a" -> 1 [] o = "b" -> 2 [] o = "proto" -> 3
FuncObjs == { FuncObjOf(o) : o \in FuncOwners }
ScriptFunc == 7
ScriptObj == 8
\* The dispatch pointers of the instances, and the instance of a pointer
\* (NoObj when it is not one of them).
DispOf(o) == CASE o = "a" -> 11 [] o = "b" -> 12 [] o = "proto" -> 13
InstOf(d) == CASE d = 11 -> "a" [] d = 12 -> "b" [] d = 13 -> "proto" [] OTHER -> NoObj
VDisp(d) == Variant("VT_DISPATCH", d)

IsFuncObj(v) == v.vt = "VT_DISPATCH" /\ v.val \in FuncObjs

\* IDispatch_AddRef on the value, if it is a function object of the engine.
AddRef(st, v) ==
    IF IsFuncObj(v) THEN [st EXCEPT !.fobj[v.val].ref = @ + 1] ELSE st

\* Function_Release: at zero the function object is freed.
Function_Release(st, i) ==
    [st EXCEPT !.fobj[i].ref = @ - 1, !.fobj[i].freed = (st.fobj[i].ref = 1)]

\* VariantClear of a value some slot or the script held.
ReleaseValue(st, v) == IF IsFuncObj(v) THEN Function_Release(st, v.val) ELSE st

\* The entry's val is its own function object (lines 1346-1347, 1730-1731).
IsDefault(e) == e.val = VDisp(e.func_obj)

HasFuncObj(st, o) == st.inst[o].func_obj # 0

\* The entry's two pointers share the one reference of create_func_disp.
RefsWithoutAddRef(o) == 1

\* Lines 1279 and 1371: the reference create_func_disp starts with and the
\* one get_func_obj_entry adds.
RefsOfNewEntry(o) == 2

\* create_func_disp and lines 1367-1373: the function object keeps obj = This
\* and is referenced by func_obj and by val.
CreateFuncObj(st, o) ==
    [st EXCEPT !.inst[o].func_obj = FuncObjOf(o),
               !.inst[o].val = VDisp(FuncObjOf(o)),
               !.fobj[FuncObjOf(o)] = [obj |-> o, ref |-> RefsOfNewEntry(o), freed |-> FALSE]]

\* get_func_obj_entry: the state after it and the owner of the entry it
\* answers; prot is the prototype argument (NoObj for NULL).
get_func_obj_entry(st, o, prot) ==
    IF prot # NoObj /\ HasFuncObj(st, prot) /\ ~IsDefault(st.inst[prot])
    THEN [st |-> st,
          entry |-> IF HasFuncObj(st, o) /\ ~IsDefault(st.inst[o]) THEN o ELSE prot]
    ELSE IF ~HasFuncObj(st, o) THEN [st |-> CreateFuncObj(st, o), entry |-> o]
    ELSE [st |-> st, entry |-> o]

\* What a call answers: the state, the HRESULT, the instance the native
\* method ran against (NoObj: it did not run), the value handed back, and
\* whether a freed instance was used.
Answer(st, hres, target, res) ==
    [st |-> st, hres |-> hres, target |-> target, res |-> res, uaf |-> FALSE]

\* invoke_builtin_function as far as the target goes: this_obj must have the
\* member's interface (lines 1603-1605), which the instances of the class
\* have and function objects, script objects and NULL do not.
InvokeOn(st, this_obj) ==
    IF this_obj \notin FuncOwners THEN Answer(st, E_UNEXPECTED, NoObj, VEmpty)
    ELSE IF st.inst[this_obj].alive THEN Answer(st, S_OK, this_obj, VEmpty)
    ELSE [Answer(st, S_OK, this_obj, VEmpty) EXCEPT !.uaf = TRUE]

\* The target of a call by value ignores obj and is what the caller names.
TargetOfCaller(st, i, this_obj) == this_obj

\* Line 1149: (IDispatch*)&This->obj->IDispatchEx_iface.
TargetOfValue(st, i, this_obj) == st.fobj[i].obj

\* function_value of the function object i of a method; this_obj is what the
\* caller names as DISPID_THIS.
function_value(st, i, wFlags, this_obj, res_null) ==
    IF wFlags = "DISPATCH_CONSTRUCT" THEN Answer(st, MSHTML_E_INVALID_PROPERTY, NoObj, VEmpty)
    ELSE IF wFlags = DISPATCH_METHOD_OR_PROPERTYGET /\ res_null
    THEN Answer(st, E_INVALIDARG, NoObj, VEmpty)
    ELSE IF wFlags \in {DISPATCH_METHOD, DISPATCH_METHOD_OR_PROPERTYGET}
    THEN IF st.fobj[i].obj = NoObj THEN Answer(st, E_UNEXPECTED, NoObj, VEmpty)
         ELSE InvokeOn(st, TargetOfValue(st, i, this_obj))
    ELSE Answer(st, E_NOTIMPL, NoObj, VEmpty)

\* E_UNEXPECTED becomes CTL_E_ILLEGALFUNCTIONCALL (line 1115).
IllegalIfUnexpected(r) ==
    IF r.hres = E_UNEXPECTED THEN [r EXCEPT !.hres = CTL_E_ILLEGALFUNCTIONCALL] ELSE r

\* function_call: the call facet; arg is the last element of rgvarg, the
\* target (VEmpty when cArgs is 0).
function_call(st, i, arg) ==
    IF arg.vt # "VT_DISPATCH" \/ arg.val = 0
    THEN Answer(st, CTL_E_ILLEGALFUNCTIONCALL, NoObj, VEmpty)
    ELSE IllegalIfUnexpected(InvokeOn(st, InstOf(arg.val)))

\* invoke_disp_value for a call without named arguments: DISPID_VALUE of the
\* dispatch v is invoked with this_obj as DISPID_THIS.  A callable of the
\* script engine runs in the script.
invoke_disp_value(st, this_obj, v, wFlags, res_null) ==
    IF IsFuncObj(v) THEN function_value(st, v.val, wFlags, this_obj, res_null)
    ELSE Answer(st, S_OK, NoObj, VEmpty)

\* The entry func_invoke calls through (lines 1724-1737): NoObj for NULL.
CallEntry(st, o) ==
    IF HasFuncObj(st, o) /\ ~IsDefault(st.inst[o]) THEN o
    ELSE IF st.inst[o].prototype # NoObj /\ HasFuncObj(st, st.inst[o].prototype)
    THEN st.inst[o].prototype
    ELSE NoObj

\* Lines 1756-1758.
InvalidBelowIE9(st, r) ==
    IF r.hres = E_UNEXPECTED /\ ModeRank(st.mode) < ModeRank(COMPAT_MODE_IE9)
    THEN [r EXCEPT !.hres = MSHTML_E_INVALID_PROPERTY] ELSE r

\* Lines 1739-1758 for the entry of owner e.
CallThrough(st, e, this_obj, wFlags, res_null) ==
    IF e # NoObj /\ st.inst[e].val.vt # "VT_DISPATCH"
    THEN Answer(st, E_NOTIMPL, NoObj, VEmpty)
    ELSE IF e # NoObj /\ ~IsDefault(st.inst[e])
    THEN IF st.inst[e].val.val = 0 THEN Answer(st, E_FAIL, NoObj, VEmpty)
         ELSE invoke_disp_value(st, this_obj, st.inst[e].val, wFlags, res_null)
    ELSE InvalidBelowIE9(st, InvokeOn(st, this_obj))

\* VariantCopy(res, &entry->val) of PROPERTYGET: the script gets a reference.
CopyOut(g) ==
    Answer(AddRef(g.st, g.st.inst[g.entry].val), S_OK, NoObj, g.st.inst[g.entry].val)

\* VariantCopy(&entry->val, dp->rgvarg) of PROPERTYPUT.
CopyIn(g, v) ==
    Answer(AddRef(ReleaseValue([g.st EXCEPT !.inst[g.entry].val = v],
                               g.st.inst[g.entry].val), v),
           S_OK, NoObj, VEmpty)

\* func_invoke for the method of the class; v is the value of a put.
func_invoke(st, o, this_obj, wFlags, v, res_null) ==
    CASE wFlags = DISPATCH_METHOD_OR_PROPERTYGET /\ res_null ->
            Answer(st, E_INVALIDARG, NoObj, VEmpty)
      [] wFlags \in {DISPATCH_METHOD, DISPATCH_METHOD_OR_PROPERTYGET} ->
            CallThrough(st, CallEntry(st, o), this_obj, wFlags, res_null)
      [] wFlags = DISPATCH_PROPERTYGET ->
            CopyOut(get_func_obj_entry(st, o, st.inst[o].prototype))
      [] wFlags = DISPATCH_PROPERTYPUT ->
            CopyIn(get_func_obj_entry(st, o, NoObj), v)
      [] OTHER -> Answer(st, E_NOTIMPL, NoObj, VEmpty)

\* The slot keeps the value it has.
KeepOverride(st, o) == st

\* reset_builtin_func, lines 1913-1916.
ResetToFuncObj(st, o) ==
    AddRef(ReleaseValue([st EXCEPT !.inst[o].val = VDisp(st.inst[o].func_obj)],
                        st.inst[o].val),
           VDisp(st.inst[o].func_obj))

reset_builtin_func(st, o) ==
    IF ~HasFuncObj(st, o) \/ IsDefault(st.inst[o]) THEN st ELSE ResetToFuncObj(st, o)

\* dispex_delete_prop for the identifier of the method.
delete_builtin_func(st, o) ==
    IF ModeRank(st.mode) < ModeRank(COMPAT_MODE_IE8)
    THEN Answer(st, E_NOTIMPL, NoObj, VEmpty)
    ELSE Answer(reset_builtin_func(st, o), S_OK, NoObj, VEmpty)

\* The owner link is left as it is.
KeepOwnerLink(st, o) == st

\* Line 3464: iter->func_obj->obj = NULL.
ClearOwnerLink(st, o) == [st EXCEPT !.fobj[st.inst[o].func_obj].obj = NoObj]

\* release_dispex of an instance with its memory freed after it: the
\* function object loses its owner and the reference of func_obj, the value
\* of the slot is cleared.
release_dispex(st, o) ==
    IF ~HasFuncObj(st, o) THEN [st EXCEPT !.inst[o].alive = FALSE]
    ELSE [ReleaseValue(Function_Release(ClearOwnerLink(st, o), st.inst[o].func_obj),
                       st.inst[o].val)
            EXCEPT !.inst[o].alive = FALSE, !.inst[o].func_obj = 0, !.inst[o].val = VEmpty]

\* What the script does with function objects.  It keeps at most one
\* reference to each: a second copy is released as soon as it is handed out.
LiveInsts == { o \in FuncOwners : objs.inst[o].alive }
HeldFuncObjs == { i \in FuncObjs : objs.held[i] }
\* The values a script can put into the slot of a method.
SlotValues == {Variant("VT_I4", 1), VDisp(ScriptFunc)} \cup { VDisp(i) : i \in HeldFuncObjs }
\* The targets a script can name: the instances it can reach and an object
\* of its own.
ThisValues == LiveInsts \cup {"script"}
\* The last argument of a call of the call facet.
CallTargets == {VEmpty, VDisp(0), VDisp(ScriptObj)} \cup { VDisp(DispOf(o)) : o \in LiveInsts }
CallFlags == {DISPATCH_METHOD, DISPATCH_METHOD_OR_PROPERTYGET}

NoFuncLast ==
    [op |-> "", on |-> NoObj, fobj |-> 0, this |-> NoObj, hres |-> "", target |-> NoObj,
     res |-> VEmpty, uaf |-> FALSE]

\* The script takes the reference that came with a value handed out.
TakeRef(st, v) ==
    IF ~IsFuncObj(v) THEN st
    ELSE IF st.held[v.val] THEN Function_Release(st, v.val)
    ELSE [st EXCEPT !.held[v.val] = TRUE]

\* The HRESULTs a call that used freed memory can answer.
AnyHres == {S_OK, E_FAIL}

FuncReturns(op, on, i, this, r) ==
    /\ objs' = TakeRef(r.st, r.res)
    /\ \E h \in (IF r.uaf THEN AnyHres ELSE {r.hres}) :
          last' = [op |-> op, on |-> on, fobj |-> i, this |-> this, hres |-> h,
                   target |-> r.target, res |-> r.res, uaf |-> r.uaf]
    /\ UNCHANGED <<info_cache, built, cs_owner, pc, call, returned, inv>>

\* InvokeEx of the method's identifier on an instance with DISPATCH_METHOD
\* or DISPATCH_METHOD|DISPATCH_PROPERTYGET.
FuncCall(o, wFlags, res_null) ==
    /\ o \in LiveInsts
    /\ FuncReturns(wFlags, o, 0, o, func_invoke(objs, o, o, wFlags, VEmpty, res_null))

\* InvokeEx of the method's identifier with DISPATCH_PROPERTYGET.
FuncGet(o) ==
    /\ o \in LiveInsts
    /\ FuncReturns(DISPATCH_PROPERTYGET, o, 0, o,
                   func_invoke(objs, o, o, DISPATCH_PROPERTYGET, VEmpty, FALSE))

\* InvokeEx of the method's identifier with DISPATCH_PROPERTYPUT.
FuncPut(o, v) ==
    /\ o \in LiveInsts
    /\ v \in SlotValues
    /\ FuncReturns(DISPATCH_PROPERTYPUT, o, 0, o,
                   func_invoke(objs, o, o, DISPATCH_PROPERTYPUT, v, TRUE))

\* DeleteMemberByDispID of the method's identifier.
FuncDelete(o) ==
    /\ o \in LiveInsts
    /\ FuncReturns("DeleteMemberByDispID", o, 0, o, delete_builtin_func(objs, o))

\* InvokeEx of DISPID_VALUE on a function object the script holds.
ValueCall(i, wFlags, this_obj, res_null) ==
    /\ i \in HeldFuncObjs
    /\ this_obj \in ThisValues
    /\ FuncReturns("value", NoObj, i, this_obj, function_value(objs, i, wFlags, this_obj, res_null))

\* InvokeEx of the call facet of a function object the script holds.
FacetCall(i, arg) ==
    /\ i \in HeldFuncObjs
    /\ arg \in CallTargets
    /\ FuncReturns("call", NoObj, i, InstOf(arg.val), function_call(objs, i, arg))

\* The last reference to an instance goes: release_dispex, then free.
Destroy(o) ==
    /\ o \in FuncInsts
    /\ objs.inst[o].alive
    /\ FuncReturns("destroy", o, 0, NoObj, Answer(release_dispex(objs, o), S_OK, NoObj, VEmpty))

\* The script drops its reference to a function object.
ScriptRelease(i) ==
    /\ i \in HeldFuncObjs
    /\ FuncReturns("release", NoObj, i, NoObj,
                   Answer(Function_Release([objs EXCEPT !.held[i] = FALSE], i),
                          S_OK, NoObj, VEmpty))

NoFuncObj == [obj |-> NoObj, ref |-> 0, freed |-> FALSE]

\* The instances insts exist, made with a window (and so with the legacy
\* prototype of their class) or without one, in one of the modes.
FuncInitWith(insts, window, modes) ==
    /\ info_cache = [s \in Slots |-> NullTable]
    /\ built = [s \in Slots |-> 0]
    /\ cs_owner = NoThread
    /\ pc = [t \in Threads |-> "idle"]
    /\ call = [t \in Threads |-> NoCall]
    /\ returned = [s \in Slots |-> {}]
    /\ inv = NoInvoke
    /\ last = NoFuncLast
    /\ \E mode \in modes :
          objs = [mode |-> mode,
                  inst |-> [o \in FuncOwners |->
                              [alive |-> o \in insts \/ (o = "proto" /\ window),
                               prototype |-> IF o \in insts /\ window THEN "proto" ELSE NoObj,
                               func_obj |-> 0, val |-> VEmpty]],
                  fobj |-> [i \in FuncObjs |-> NoFuncObj],
                  held |-> [i \in FuncObjs |-> FALSE]]

\* Two instances made without a window.
FuncInit == FuncInitWith(FuncInsts, FALSE, {COMPAT_MODE_IE8, COMPAT_MODE_IE9})

\* One instance made with a window below IE9, and its legacy prototype.
OverrideInit == FuncInitWith({"a"}, TRUE, {COMPAT_MODE_IE7, COMPAT_MODE_IE8})

FuncNext ==
    \/ \E o \in FuncOwners, wFlags \in CallFlags, res_null \in BOOLEAN : FuncCall(o, wFlags, res_null)
    \/ \E o \in FuncOwners : FuncGet(o)
    \/ \E o \in FuncOwners : \E v \in SlotValues : FuncPut(o, v)
    \/ \E o \in FuncOwners : FuncDelete(o)
    \/ \E i \in FuncObjs, wFlags \in CallFlags, res_null \in BOOLEAN :
          \E this_obj \in ThisValues : ValueCall(i, wFlags, this_obj, res_null)
    \/ \E i \in FuncObjs : \E arg \in CallTargets : FacetCall(i, arg)
    \/ \E o \in FuncInsts : Destroy(o)
    \/ \E i \in FuncObjs : ScriptRelease(i)

SpecFunc == FuncInit /\ [][FuncNext]_vars

SpecOverride == OverrideInit /\ [][FuncNext]_vars

\* r ran the method against the instance o and answered S_OK.
RanOn(r, o) == r.hres = S_OK /\ r.target = o /\ ~r.uaf

\* The function objects the script holds whose owner is still there.
OwnedHeld == { i \in HeldFuncObjs : objs.fobj[i].obj # NoObj }

\* C17 as the specification has it: a call of a function object's value with
\* DISPATCH_METHOD or DISPATCH_METHOD|DISPATCH_PROPERTYGET runs the method
\* against the instance the caller names, not the one it was made from.
C17_ValueRunsOnCallersTarget ==
    \A i \in OwnedHeld : \A this_obj \in LiveInsts : \A wFlags \in CallFlags :
       RanOn(function_value(objs, i, wFlags, this_obj, FALSE), this_obj)

\* C17: a call of a function object's value with DISPATCH_METHOD or
\* DISPATCH_METHOD|DISPATCH_PROPERTYGET runs the method against the instance
\* the function object was made from, whatever the caller names; the call
\* facet runs it against the instance passed as its target, whoever made the
\* function object and whether or not that instance is still there.
C17_ValueRunsOnOwner ==
    /\ \A i \in OwnedHeld : \A this_obj \in ThisValues : \A wFlags \in CallFlags :
          RanOn(function_value(objs, i, wFlags, this_obj, FALSE), objs.fobj[i].obj)
    /\ \A i \in HeldFuncObjs : \A o \in LiveInsts :
          RanOn(function_call(objs, i, VDisp(DispOf(o))), o)

\* The case of C17 has happened: the value of a function object was called
\* with one instance named as the target and the method ran against another.
C17_Witness ==
    /\ last.op = "value"
    /\ last.hres = S_OK
    /\ last.this \in FuncInsts
    /\ last.target \in FuncInsts
    /\ last.this # last.target

\* The function objects that were made and not freed.
ValidFuncObjs == { i \in FuncObjs : objs.fobj[i].ref > 0 /\ ~objs.fobj[i].freed }

\* The function objects something refers to: the script, a slot's value or
\* an entry's func_obj.
ReferredFuncObjs ==
    HeldFuncObjs
    \cup ({ objs.inst[o].func_obj : o \in FuncOwners } \ {0})
    \cup { objs.inst[o].val.val : o \in { q \in FuncOwners : IsFuncObj(objs.inst[q].val) } }

\* r is the owner-gone failure, and no instance was touched.
OwnerGone(r) == r.hres = E_UNEXPECTED /\ r.target = NoObj /\ ~r.uaf

\* C18: no function object keeps a link to an instance that was destroyed;
\* a call of the value of a function object whose owner is gone answers
\* E_UNEXPECTED and touches no instance; and a function object is valid as
\* long as anything refers to it, and freed only with its count at zero.
C18_OwnerLinkCleared ==
    /\ \A i \in FuncObjs : objs.fobj[i].obj # NoObj => objs.inst[objs.fobj[i].obj].alive
    /\ ~last.uaf
    /\ \A i \in HeldFuncObjs \ OwnedHeld : \A this_obj \in ThisValues :
          /\ OwnerGone(function_value(objs, i, DISPATCH_METHOD, this_obj, TRUE))
          /\ \A wFlags \in CallFlags :
                OwnerGone(function_value(objs, i, wFlags, this_obj, FALSE))
    /\ ReferredFuncObjs \subseteq ValidFuncObjs
    /\ \A i \in FuncObjs : objs.fobj[i].freed => objs.fobj[i].ref = 0

\* The case of C18 has happened: an instance was destroyed, and a call of
\* the value of the function object it made, which the script still holds,
\* answered E_UNEXPECTED.
C18_Witness ==
    /\ last.op = "value"
    /\ last.hres = E_UNEXPECTED
    /\ last.fobj \in HeldFuncObjs \ OwnedHeld
    /\ \E o \in FuncInsts : ~objs.inst[o].alive /\ FuncObjOf(o) = last.fobj
    /\ objs.fobj[last.fobj].ref = 1

\* The slot of o holds something else than o's own function object.
Overridden(st, o) == HasFuncObj(st, o) /\ ~IsDefault(st.inst[o])

\* What a get of the method on o is to answer: the override of o, else the
\* override of its prototype, else o's own function object.
SlotValue(st, o) ==
    IF Overridden(st, o) THEN st.inst[o].val
    ELSE IF st.inst[o].prototype # NoObj /\ Overridden(st, st.inst[o].prototype)
    THEN st.inst[st.inst[o].prototype].val
    ELSE VDisp(FuncObjOf(o))

GetAnswers(r, v) == r.hres = S_OK /\ r.res = v

\* d is what a delete answered: if it succeeded, o has no override left and a
\* get answers the prototype's override or else o's own function object.
FallsBack(d, o) ==
    d.hres = S_OK =>
       /\ ~Overridden(d.st, o)
       /\ GetAnswers(func_invoke(d.st, o, o, DISPATCH_PROPERTYGET, VEmpty, FALSE),
                     SlotValue(d.st, o))

\* p is what a put on o answered: the slots of the others are as they were.
OthersKept(p, o) == \A q \in FuncOwners \ {o} : p.st.inst[q] = objs.inst[q]

\* C19: a get of a method on an instance answers the instance's override if
\* it has one, else its prototype's override if that has one, else the
\* instance's own function object; after a delete that resets the override
\* of the instance a get answers the prototype's override or else the
\* instance's own function object; and a put on the instance leaves the slot
\* of the prototype alone, as a put on the prototype leaves the instance's.
C19_OverridesPerObject ==
    \A o \in LiveInsts :
       /\ GetAnswers(func_invoke(objs, o, o, DISPATCH_PROPERTYGET, VEmpty, FALSE),
                     SlotValue(objs, o))
       /\ FallsBack(delete_builtin_func(objs, o), o)
       /\ \A v \in SlotValues :
             OthersKept(func_invoke(objs, o, o, DISPATCH_PROPERTYPUT, v, TRUE), o)

\* The case of C19 has happened: in IE8 mode the instance's override was
\* reset by a delete while the prototype has an override, which is what a get
\* on the instance now answers.
C19_Witness ==
    /\ last.op = "DeleteMemberByDispID"
    /\ last.on = "a"
    /\ last.hres = S_OK
    /\ objs.mode = COMPAT_MODE_IE8
    /\ HasFuncObj(objs, "a") /\ ~Overridden(objs, "a")
    /\ Overridden(objs, "proto")
    /\ objs.fobj[FuncObjOf("a")].ref = 2 /\ ~objs.held[FuncObjOf("a")]

(***************************************************************************)
(* The apply facet.  The array-like object of the script is [lookup, read, *)
(* length, elems]: what GetDispID and InvokeEx answer for "length", the    *)
(* value of length, and for each index whether the property is absent, has *)
(* a value or fails to be read.  bits is the width of size_t of the build. *)
(***************************************************************************)
\* Indexes 0..MaxElems-1 of the array-like can hold something.
MaxElems == 2
\* The heap gives at most this many VARIANTARGs in one block.
HeapUnits == 4
\* 2^28 VARIANTARGs of 16 bytes are 2^32 bytes.
WrapUnits == 268435456

ArrayObj == 9
ElemKinds == {"absent", "value", "fails"}
ElemValue(i) == Variant("VT_I4", i + 1)
LengthValues ==
    { Variant("VT_I4", 0), Variant("VT_I4", 2), Variant("VT_I4", 3), Variant("VT_I4", -1),
      Variant("VT_I4", WrapUnits + 1), Variant("VT_BSTR", 2), Variant("VT_DISPATCH", 0) }

\* What function_apply did: the HRESULT, whether invoke_builtin_function
\* was called, the positional arguments it got, and whether the behaviour
\* was undefined (a NULL pointer read or a write past the block).
Applied(hres, invoked, args) ==
    [hres |-> hres, invoked |-> invoked, args |-> args, ub |-> FALSE]
Undefined == [hres |-> E_FAIL, invoked |-> FALSE, args |-> <<>>, ub |-> TRUE]

\* The number of VARIANTARGs malloc is asked for: cArgs * sizeof(VARIANTARG)
\* in size_t (line 1052).
AllocUnits(bits, cArgs) == IF bits = 32 THEN cArgs % WrapUnits ELSE cArgs

\* Line 1091 and line 1100, for the target this_obj and the arguments args.
ApplyInvoke(this_obj, args) ==
    IF InstOf(this_obj) = NoObj THEN Applied(CTL_E_ILLEGALFUNCTIONCALL, FALSE, <<>>)
    ELSE Applied(S_OK, TRUE, args)

\* The loop of lines 1056-1084 from index i on; args are the elements read.
RECURSIVE ApplyArgs(_, _, _, _, _)
ApplyArgs(arr, this_obj, n, i, args) ==
    IF i = n THEN ApplyInvoke(this_obj, args)
    ELSE IF i >= MaxElems \/ arr.elems[i] = "absent"
    THEN ApplyArgs(arr, this_obj, n, i + 1, Append(args, VEmpty))
    ELSE IF arr.elems[i] = "fails" THEN Applied(E_FAIL, FALSE, <<>>)
    ELSE ApplyArgs(arr, this_obj, n, i + 1, Append(args, ElemValue(i)))

\* Lines 1048-1088 for the length n.
ApplyLength(bits, arr, this_obj, n) ==
    IF n = 0 THEN ApplyInvoke(this_obj, <<>>)
    ELSE IF AllocUnits(bits, n) > HeapUnits THEN Applied(E_OUTOFMEMORY, FALSE, <<>>)
    ELSE IF AllocUnits(bits, n) < n THEN Undefined
    ELSE ApplyArgs(arr, this_obj, n, 0, <<>>)

\* Lines 1037-1047 for the conversion c of the length to VT_I4.
ApplyConverted(bits, arr, this_obj, c) ==
    IF FAILED(c.hres) \/ c.v.val < 0 THEN Applied(CTL_E_ILLEGALFUNCTIONCALL, FALSE, <<>>)
    ELSE ApplyLength(bits, arr, this_obj, c.v.val)

\* Lines 1003-1089 for the array-like arr passed as the second argument.
ApplyArray(bits, arr, this_obj, res_null) ==
    IF FAILED(arr.lookup) THEN Applied(CTL_E_ILLEGALFUNCTIONCALL, FALSE, <<>>)
    ELSE IF FAILED(arr.read)
    THEN Applied(IF arr.read = E_UNEXPECTED THEN CTL_E_ILLEGALFUNCTIONCALL ELSE arr.read, FALSE, <<>>)
    ELSE IF res_null THEN Undefined
    ELSE IF arr.length.vt = "VT_I4"
    THEN ApplyConverted(bits, arr, this_obj, [hres |-> S_OK, v |-> arr.length])
    ELSE ApplyConverted(bits, arr, this_obj, change_type(arr.length, "VT_I4"))

\* function_apply; dp is [cArgs, this, second]: the count and the first two
\* arguments, second being [vt, val] with val = ArrayObj for the array-like
\* and 0 for a NULL pointer.
function_apply(bits, arr, dp, res_null) ==
    IF dp.cArgs < 1 \/ dp.this.vt # "VT_DISPATCH" \/ dp.this.val = 0
    THEN Applied(CTL_E_ILLEGALFUNCTIONCALL, FALSE, <<>>)
    ELSE IF dp.cArgs < 2 THEN ApplyInvoke(dp.this.val, <<>>)
    ELSE IF dp.second.vt \notin {"VT_DISPATCH", "VT_DISPATCH|VT_BYREF"}
    THEN Applied(CTL_E_ILLEGALFUNCTIONCALL, FALSE, <<>>)
    ELSE IF dp.second.val = 0 THEN Undefined
    ELSE ApplyArray(bits, arr, dp.this.val, res_null)

\* The calls of apply a script makes.
ApplyThis == { VDisp(DispOf("a")), VDisp(ScriptObj), VEmpty }
ApplySecond == { VDisp(ArrayObj), VDisp(0), Variant("VT_I4", 1) }
ApplyParams == { [cArgs |-> c, this |-> t, second |-> s] : c \in 0..2, t \in ApplyThis, s \in ApplySecond }
\* What GetDispID and InvokeEx of the array-like answer for "length".
LengthAnswers == { <<S_OK, S_OK>>, <<DISP_E_UNKNOWNNAME, S_OK>>, <<S_OK, E_FAIL>> }
NoApplied == [op |-> "", dp |-> [cArgs |-> 0, this |-> VEmpty, second |-> VEmpty],
              res_null |-> FALSE, r |-> Applied("", FALSE, <<>>)]

ApplyUnchanged == UNCHANGED <<info_cache, built, cs_owner, pc, call, returned, inv>>

\* Undefined behaviour can end in any answer, with the method run or not.
Outcomes(r) ==
    IF r.ub THEN { [r EXCEPT !.hres = h, !.invoked = ran] : h \in AnyHres, ran \in BOOLEAN }
    ELSE {r}

\* InvokeEx of the apply facet with DISPATCH_METHOD.
Apply(dp, res_null) ==
    /\ \E r \in Outcomes(function_apply(objs.bits, objs.arr, dp, res_null)) :
          last' = [op |-> "apply", dp |-> dp, res_null |-> res_null, r |-> r]
    /\ UNCHANGED objs
    /\ ApplyUnchanged

\* The script changes its array-like object.
SetLength(v, lookup, read) ==
    /\ objs' = [objs EXCEPT !.arr.length = v, !.arr.lookup = lookup, !.arr.read = read]
    /\ last' = NoApplied
    /\ ApplyUnchanged

SetElem(i, kind) ==
    /\ objs' = [objs EXCEPT !.arr.elems[i] = kind]
    /\ last' = NoApplied
    /\ ApplyUnchanged

ApplyInit ==
    /\ info_cache = [s \in Slots |-> NullTable]
    /\ built = [s \in Slots |-> 0]
    /\ cs_owner = NoThread
    /\ pc = [t \in Threads |-> "idle"]
    /\ call = [t \in Threads |-> NoCall]
    /\ returned = [s \in Slots |-> {}]
    /\ inv = NoInvoke
    /\ last = NoApplied
    /\ \E bits \in {32, 64} :
          objs = [bits |-> bits,
                  arr |-> [lookup |-> S_OK, read |-> S_OK, length |-> Variant("VT_I4", 0),
                           elems |-> [i \in 0..(MaxElems - 1) |-> "absent"]]]

ApplyNext ==
    \/ \E dp \in ApplyParams, res_null \in BOOLEAN : Apply(dp, res_null)
    \/ \E v \in LengthValues, answers \in LengthAnswers : SetLength(v, answers[1], answers[2])
    \/ \E i \in 0..(MaxElems - 1), kind \in ElemKinds : SetElem(i, kind)

SpecApply == ApplyInit /\ [][ApplyNext]_vars

\* The length of the array-like can be read and is a number that is not
\* negative.
LengthOf(arr) ==
    IF FAILED(arr.lookup) \/ FAILED(arr.read) THEN -1
    ELSE IF arr.length.vt = "VT_I4" THEN arr.length.val
    ELSE IF FAILED(change_type(arr.length, "VT_I4").hres) THEN -1
    ELSE change_type(arr.length, "VT_I4").v.val

\* The arguments apply is to forward for the length n.
Forwarded(arr, n) ==
    [k \in 1..n |-> IF k <= MaxElems /\ arr.elems[k - 1] = "value" THEN ElemValue(k - 1) ELSE VEmpty]

ElemsReadable(arr, n) == \A i \in 0..(MaxElems - 1) : i < n => arr.elems[i] # "fails"

Refused(r) == FAILED(r.hres) /\ ~r.invoked

\* C20: apply with a target and an array-like second argument forwards as
\* many positional arguments as the length says, VT_EMPTY for every index
\* the array-like does not have; when the length cannot be read or
\* converted, is negative or is more than a block can hold, the call fails
\* and the method is not invoked.
C20_ApplyForwardsLength ==
    last.op = "apply" /\ last.dp.cArgs = 2 /\ InstOf(last.dp.this.val) # NoObj
       /\ last.dp.second.vt \in {"VT_DISPATCH", "VT_DISPATCH|VT_BYREF"}
    => /\ ~last.r.ub
       /\ IF LengthOf(objs.arr) < 0 \/ LengthOf(objs.arr) > HeapUnits THEN Refused(last.r)
          ELSE IF ElemsReadable(objs.arr, LengthOf(objs.arr))
          THEN last.r.invoked /\ last.r.args = Forwarded(objs.arr, LengthOf(objs.arr))
          ELSE Refused(last.r)

(***************************************************************************)
(* Delayed initialisation: init_dispatch for a class whose vtbl has        *)
(* get_compat_mode, ensure_real_info, finalize_delayed_init_dispex and     *)
(* dispex_compat_mode.  objs holds the realm's document mode, each         *)
(* instance's info pointer and whether the process has faulted.            *)
(***************************************************************************)
DelayedClass == "Widget"
DelayedInsts == {"a", "b"}

\* data->delayed_init_info: the zeroed placeholder of the class.
delayed_init_info == TablePtr(-1, [NullTable.tbl EXCEPT !.desc = DelayedClass])

\* window->doc->document_mode
document_mode(st) == st.document_mode

\* The class's get_compat_mode callback: the mode of the owning realm now.
get_compat_mode(st, i) == document_mode(st)

\* The mutation of InfoMode: the realm asked again.
ModeOfRealmNow(st, i) == document_mode(st)

\* dispex->info->compat_mode
InfoMode(st, i) == st.info[i].tbl.compat_mode

\* dispex_compat_mode of an instance that may still hold the placeholder.
dispex_compat_mode_delayed(st, i) ==
    IF st.info[i] # delayed_init_info THEN InfoMode(st, i) ELSE get_compat_mode(st, i)

\* ensure_dispex_info run to its end by one thread, made being what
\* preprocess_dispex_data returns if it is called.
EnsureSlot(cache, s, made) == IF cache[s] = NullTable THEN [cache EXCEPT ![s] = made] ELSE cache

\* What preprocess_dispex_data can return for slot s: NULL, or a table.
MadeFor(s) ==
    {NullTable} \cup
    { TablePtr(built[s] + 1, [d EXCEPT !.compat_mode = s[2]]) :
        d \in UNION { PreprocessCache[s[1]][k] : k \in 0..Len(iface_tids(s[1])) } }

\* This->info = ensure_dispex_info(data, compat_mode), the cache being as
\* ensure_dispex_info left it.
finalize_delayed_init_dispex(st, i, cache) ==
    [st EXCEPT !.info[i] = cache[<<DelayedClass, document_mode(st)>>]]

\* The class's finalize_dispex callback hands the instance, its window and its
\* descriptor to finalize_delayed_init_dispex.
finalize_dispex(st, i, cache) == finalize_delayed_init_dispex(st, i, cache)

NoDelayedLast == [op |-> "", on |-> "", first |-> FALSE, ok |-> FALSE, mode |-> ""]

Faulted == objs.crashed

\* A router operation on instance i that starts with ensure_real_info; made is
\* what preprocess_dispex_data returns if the slot has to be constructed.
Access(i, made) ==
    /\ ~Faulted
    /\ objs.info[i] # NullTable
    /\ LET s == <<DelayedClass, document_mode(objs)>>
       IN  IF objs.info[i] # delayed_init_info
           THEN /\ made = NullTable
                /\ UNCHANGED <<info_cache, built>>
                /\ objs' = [objs EXCEPT !.accessed[i] = TRUE]
                /\ last' = [op |-> "access", on |-> i, first |-> FALSE, ok |-> TRUE,
                            mode |-> document_mode(objs)]
           ELSE /\ info_cache[s] = NullTable \/ made = NullTable
                /\ made # NullTable => built[s] < MaxBuilds
                /\ info_cache' = EnsureSlot(info_cache, s, made)
                /\ built' = IF info_cache'[s] # info_cache[s] THEN [built EXCEPT ![s] = @ + 1]
                            ELSE built
                /\ objs' = [finalize_dispex(objs, i, info_cache') EXCEPT !.accessed[i] = TRUE]
                /\ last' = [op |-> "access", on |-> i, first |-> TRUE,
                            ok |-> objs'.info[i] # NullTable, mode |-> document_mode(objs)]
    /\ UNCHANGED <<cs_owner, pc, call, returned, inv>>

\* An operation on an instance whose info a failed resolve left NULL:
\* ensure_real_info reads dispex->info->desc through the null pointer.  The
\* process faults, or goes on with whatever the read gave.
AccessNull(i, h) ==
    /\ ~Faulted
    /\ objs.info[i] = NullTable
    /\ objs' = [objs EXCEPT !.crashed = h]
    /\ last' = [op |-> "null", on |-> i, first |-> FALSE, ok |-> ~h, mode |-> document_mode(objs)]
    /\ UNCHANGED <<info_cache, built, cs_owner, pc, call, returned, inv>>

\* The realm's document mode becomes m.
SetDocumentMode(m) ==
    /\ ~Faulted
    /\ m # document_mode(objs)
    /\ objs' = [objs EXCEPT !.document_mode = m]
    /\ last' = [NoDelayedLast EXCEPT !.op = "mode", !.mode = m]
    /\ UNCHANGED <<info_cache, built, cs_owner, pc, call, returned, inv>>

\* init_dispatch of every instance: dispex->info = data->delayed_init_info.
DelayedInit ==
    /\ info_cache = [s \in Slots |-> NullTable]
    /\ built = [s \in Slots |-> 0]
    /\ cs_owner = NoThread
    /\ pc = [t \in Threads |-> "idle"]
    /\ call = [t \in Threads |-> NoCall]
    /\ returned = [s \in Slots |-> {}]
    /\ \E m \in CacheModes :
         objs = [document_mode |-> m, info |-> [i \in DelayedInsts |-> delayed_init_info],
                 accessed |-> [i \in DelayedInsts |-> FALSE], crashed |-> FALSE]
    /\ last = NoDelayedLast
    /\ inv = NoObjects

DelayedNext ==
    \/ \E i \in DelayedInsts :
         \E made \in MadeFor(<<DelayedClass, document_mode(objs)>>) : Access(i, made)
    \/ \E i \in DelayedInsts : \E h \in BOOLEAN : AccessNull(i, h)
    \/ \E m \in CacheModes : SetDocumentMode(m)

SpecDelayed == DelayedInit /\ [][DelayedNext]_vars

(***************************************************************************)
(* Claims about delayed initialisation, checked under SpecDelayed.         *)
(***************************************************************************)
Resolved(st, i) == st.info[i] \notin {delayed_init_info, NullTable}

UnresolvedUntilAccess ==
    \A i \in DelayedInsts : ~objs.accessed[i] => objs.info[i] = delayed_init_info

\* The first access of i either fails and says so, or leaves the instance with
\* the table of the realm's mode at that moment.
FirstAccessResolves ==
    \A i \in DelayedInsts :
        (objs.info[i] = delayed_init_info /\ objs'.accessed[i]) =>
            \/ ~last'.ok /\ objs'.info[i] = NullTable
            \/ /\ last'.ok /\ Resolved(objs', i)
               /\ objs'.info[i] = info_cache'[<<DelayedClass, document_mode(objs)>>]
               /\ dispex_compat_mode_delayed(objs', i) = document_mode(objs)

ResolvedStays ==
    \A i \in DelayedInsts :
        Resolved(objs, i) =>
            /\ objs'.info[i] = objs.info[i]
            /\ dispex_compat_mode_delayed(objs', i) = dispex_compat_mode_delayed(objs, i)

CompleteTables(s) == { [d EXCEPT !.compat_mode = s[2]] : d \in PreprocessCache[s[1]][0] }

\* C22: a construction that fails, because the type information of one of the
\* class's interfaces cannot be had or because memory runs out, publishes
\* nothing: every slot is NULL or holds a table of a construction in which no
\* interface failed, so that the next resolve of the pair constructs again.
C22_FailedConstructionNotPublished ==
    \A s \in Slots : info_cache[s] # NullTable => info_cache[s].tbl \in CompleteTables(s)

(***************************************************************************)
(* cs_dispex_static_data during table construction.  A thread's call is    *)
(* the stack of its ensure_dispex_info frames (the slot, and where the     *)
(* caller goes on), pc its position in the top frame; objs holds the       *)
(* critical section's RecursionCount.                                     *)
(***************************************************************************)
LegacyClasses == {"Widget", "WidgetPrototype"}
LegacyModes == {"COMPAT_MODE_IE7", "COMPAT_MODE_IE8"}
LegacySlots == LegacyClasses \X LegacyModes

\* desc->init_info: the legacy prototype descriptors have
\* legacy_prototype_init_dispex_info.
has_init_info(c) == c = "WidgetPrototype"

\* prototype_static_data[prot_id].desc
prototype_static_data(c) == "Widget"

\* EnterCriticalSection of a section another thread may own: a critical section
\* is entered again by the thread that owns it.
NeverOwned(t) == cs_owner = NoThread
CanEnter(t) == cs_owner = NoThread \/ cs_owner = t

Frame(s, ret) == [slot |-> s, ret |-> ret]
TopSlot(t) == call[t][Len(call[t])].slot
Push(t, s, ret) == [call EXCEPT ![t] = Append(@, Frame(s, ret))]

\* The positions at which the thread is inside a collaborator: get_typeinfo
\* (reflection), the class's init_info callback, a native member.
InReflection(t) == pc[t] \in {"disp_typeinfo", "ifaces"}
InInitInfo(t) == pc[t] = "init_info"
InMember(t) == pc[t] = "member"

\* A router operation of thread t on an instance of slot s starts by resolving.
LockCall(t, s) ==
    /\ pc[t] = "idle"
    /\ call' = Push(t, s, "member")
    /\ pc' = [pc EXCEPT ![t] = "check"]
    /\ UNCHANGED <<info_cache, built, cs_owner, returned, objs, last, inv>>

\* if(!desc->info_cache[compat_mode])
LockCheck(t) ==
    /\ pc[t] = "check"
    /\ pc' = [pc EXCEPT ![t] = IF info_cache[TopSlot(t)] = NullTable THEN "enter" ELSE "return"]
    /\ UNCHANGED <<info_cache, built, cs_owner, call, returned, objs, last, inv>>

LockEnter(t) ==
    /\ pc[t] = "enter"
    /\ CanEnter(t)
    /\ cs_owner' = t
    /\ objs' = [objs EXCEPT !.RecursionCount = @ + 1]
    /\ pc' = [pc EXCEPT ![t] = "locked"]
    /\ UNCHANGED <<info_cache, built, call, returned, last, inv>>

\* The second test; preprocess_dispex_data starts when the slot is still NULL.
LockSecondCheck(t) ==
    /\ pc[t] = "locked"
    /\ pc' = [pc EXCEPT ![t] = IF info_cache[TopSlot(t)] = NullTable THEN "disp_typeinfo"
                                ELSE "leave"]
    /\ UNCHANGED <<info_cache, built, cs_owner, call, returned, objs, last, inv>>

\* get_typeinfo(desc->disp_tid) and the allocations: on failure
\* preprocess_dispex_data returns NULL.
LockDispTypeinfo(t, ok) ==
    /\ pc[t] = "disp_typeinfo"
    /\ pc' = [pc EXCEPT ![t] = IF ~ok THEN "leave"
                                ELSE IF has_init_info(TopSlot(t)[1]) THEN "init_info"
                                ELSE "ifaces"]
    /\ UNCHANGED <<info_cache, built, cs_owner, call, returned, objs, last, inv>>

\* desc->init_info(data, compat_mode): legacy_prototype_init_dispex_info
\* resolves the table of the instance class.
LockInitInfo(t) ==
    /\ pc[t] = "init_info"
    /\ call' = Push(t, <<prototype_static_data(TopSlot(t)[1]), TopSlot(t)[2]>>, "ifaces")
    /\ pc' = [pc EXCEPT ![t] = "check"]
    /\ UNCHANGED <<info_cache, built, cs_owner, returned, objs, last, inv>>

\* The table of a legacy prototype: the members copied from the instance
\* class's table, none when that could not be resolved.
CopiedTable(s) ==
    LET data == info_cache[<<prototype_static_data(s[1]), s[2]>>]
    IN  IF data = NullTable THEN [NullTable.tbl EXCEPT !.desc = s[1], !.compat_mode = s[2]]
        ELSE [data.tbl EXCEPT !.desc = s[1]]

\* The loop over iface_tids with its get_typeinfo calls, the sorts, and the
\* store of the table in info_cache[compat_mode].
LockIfaces(t) ==
    /\ pc[t] = "ifaces"
    /\ LET s == TopSlot(t)
       IN  /\ built[s] < MaxBuilds
           /\ \E d \in IF has_init_info(s[1]) THEN {CopiedTable(s)}
                       ELSE { [x EXCEPT !.compat_mode = s[2]] : x \in PreprocessCache[s[1]][0] } :
                info_cache' = [info_cache EXCEPT ![s] = TablePtr(built[s] + 1, d)]
           /\ built' = [built EXCEPT ![s] = @ + 1]
    /\ pc' = [pc EXCEPT ![t] = "leave"]
    /\ UNCHANGED <<cs_owner, call, returned, objs, last, inv>>

LockLeave(t) ==
    /\ pc[t] = "leave"
    /\ objs' = [objs EXCEPT !.RecursionCount = @ - 1]
    /\ cs_owner' = IF objs'.RecursionCount = 0 THEN NoThread ELSE cs_owner
    /\ pc' = [pc EXCEPT ![t] = "return"]
    /\ UNCHANGED <<info_cache, built, call, returned, last, inv>>

\* return desc->info_cache[compat_mode], to where the frame was called from.
LockReturn(t) ==
    /\ pc[t] = "return"
    /\ pc' = [pc EXCEPT ![t] = call[t][Len(call[t])].ret]
    /\ call' = [call EXCEPT ![t] = SubSeq(@, 1, Len(@) - 1)]
    /\ UNCHANGED <<info_cache, built, cs_owner, returned, objs, last, inv>>

\* The operation runs the member; the member returns, or dispatches on an
\* object of slot s before it does.
MemberReturn(t) ==
    /\ pc[t] = "member"
    /\ pc' = [pc EXCEPT ![t] = "idle"]
    /\ UNCHANGED <<info_cache, built, cs_owner, call, returned, objs, last, inv>>

MemberReenter(t, s) ==
    /\ pc[t] = "member"
    /\ info_cache[s] = NullTable
    /\ call' = Push(t, s, "member")
    /\ pc' = [pc EXCEPT ![t] = "check"]
    /\ UNCHANGED <<info_cache, built, cs_owner, returned, objs, last, inv>>

LockInit ==
    /\ info_cache = [s \in LegacySlots |-> NullTable]
    /\ built = [s \in LegacySlots |-> 0]
    /\ cs_owner = NoThread
    /\ pc = [t \in Threads |-> "idle"]
    /\ call = [t \in Threads |-> <<>>]
    /\ returned = [s \in Slots |-> {}]
    /\ objs = [RecursionCount |-> 0]
    /\ last = NoObjects
    /\ inv = NoObjects

\* The steps of a thread that is inside an operation.
LockStep(t) ==
    \/ LockCheck(t)
    \/ LockEnter(t)
    \/ LockSecondCheck(t)
    \/ \E ok \in BOOLEAN : LockDispTypeinfo(t, ok)
    \/ LockInitInfo(t)
    \/ LockIfaces(t)
    \/ LockLeave(t)
    \/ LockReturn(t)
    \/ MemberReturn(t)
    \/ \E s \in LegacySlots : MemberReenter(t, s)

LockNext ==
    \/ \E t \in Threads : \E s \in LegacySlots : LockCall(t, s)
    \/ \E t \in Threads : LockStep(t)

SpecLock == LockInit /\ [][LockNext]_vars

(***************************************************************************)
(* Claims about the lock, checked under SpecLock.                          *)
(***************************************************************************)
Holds(t) == cs_owner = t

\* C23 as stated: no thread is inside get_typeinfo, a class's init_info
\* callback or a member while it holds cs_dispex_static_data.
C23_NoCollaboratorUnderLock ==
    \A t \in Threads : Holds(t) => ~(InReflection(t) \/ InInitInfo(t) \/ InMember(t))

\* A resolve made from init_info by the thread that holds the lock is inside
\* ensure_dispex_info again.
NestedFrames(t) == Len(call[t]) > 1 /\ call[t][Len(call[t])].ret = "ifaces"

\* C23 (amended): cs_dispex_static_data is held during table construction,
\* the get_typeinfo calls and the init_info callback included, and never while
\* a member runs; the resolve init_info makes re-enters the section its thread
\* owns, so whenever some thread is inside an operation some thread can step.
C23_ReentrantResolveProceeds ==
    /\ \A t \in Threads : InMember(t) => ~Holds(t)
    /\ \A t \in Threads : (InReflection(t) \/ InInitInfo(t)) => Holds(t)
    /\ (cs_owner = NoThread) <=> (objs.RecursionCount = 0)
    /\ (\E t \in Threads : pc[t] # "idle") => ENABLED (\E t \in Threads : LockStep(t))

\* The resolve made by init_info waits at EnterCriticalSection for the section
\* its own thread holds, while the other thread waits for it too.
C23_Witness ==
    \E t \in Threads : \E u \in Threads \ {t} :
        /\ Holds(t) /\ NestedFrames(t) /\ pc[t] = "enter"
        /\ pc[u] = "enter"
        /\ objs.RecursionCount = 1

(***************************************************************************)
(* What the callers of invoke_builtin_function make of the code a native   *)
(* member returned: func_invoke, function_value, function_call and         *)
(* function_apply.                                                         *)
(***************************************************************************)
NativePaths == {"direct", "value", "call", "apply"}
NativeModes == {COMPAT_MODE_IE7, COMPAT_MODE_IE8, COMPAT_MODE_IE9}

\* The codes a native member returns.
NativeCodes == {S_OK, E_FAIL, E_UNEXPECTED, E_OUTOFMEMORY}

\* The argument lists of the calls.
NativeArgLists == SeqsUpTo({Variant("VT_I4", 1), Variant("VT_BSTR", -1)}, 2)

\* The HRESULT the caller of the path gets for what invoke_builtin_function
\* answered: func_invoke (lines 1755-1758), function_value (1149),
\* function_call (1113-1115), function_apply (1090-1100).
ReturnedThrough(path, mode, out) ==
    CASE path = "direct" -> InvalidBelowIE9([mode |-> mode], out).hres
      [] path = "value"  -> out.hres
      [] path = "call"   -> IllegalIfUnexpected(out).hres
      [] path = "apply"  -> IllegalIfUnexpected(out).hres

NoNativeLast ==
    [path |-> "", mode |-> "", native |-> "", hres |-> "", out |-> Outcome("", "none", <<>>, <<>>)]

\* A call of a method on a target that has the member's interface.
NativeCall(path, mode, func, rgvarg, native) ==
    /\ LET out == invoke_builtin_function(func, rgvarg, TRUE, S_FALSE, TRUE, native, native)
       IN  last' = [path |-> path, mode |-> mode, native |-> native,
                    hres |-> ReturnedThrough(path, mode, out), out |-> out]
    /\ UNCHANGED <<info_cache, built, cs_owner, pc, call, returned, objs, inv>>

NativeInit ==
    /\ info_cache = [s \in Slots |-> NullTable]
    /\ built = [s \in Slots |-> 0]
    /\ cs_owner = NoThread
    /\ pc = [t \in Threads |-> "idle"]
    /\ call = [t \in Threads |-> NoCall]
    /\ returned = [s \in Slots |-> {}]
    /\ objs = NoObjects
    /\ last = NoNativeLast
    /\ inv = NoObjects

NativeNext ==
    \E path \in NativePaths, mode \in NativeModes, func \in InvokeFuncs,
       rgvarg \in NativeArgLists, native \in NativeCodes :
        NativeCall(path, mode, func, rgvarg, native)

SpecNative == NativeInit /\ [][NativeNext]_vars

\* C24: when the native member ran and returned a failure code, the caller of
\* the invoke gets exactly that code, on the direct call, through a function
\* object and through the call and apply facets, in every compat mode.
C24_NativeFailureReturned ==
    (last.out.path = "native" /\ FAILED(last.native)) => last.hres = last.native

(***************************************************************************)
(* Failures of collaborators, checked under SpecProps.                     *)
(***************************************************************************)
\* C25: an operation on a builtin property whose target did not answer the
\* query for the member's interface does not report success: a get or put that
\* found the member and whose QueryInterface failed ends with a failure.
C25_CollaboratorFailureReported ==
    (last.op # "" /\ ~last.qi_ok /\ last.id \in PropertyIds(objs["inst"].info)) =>
        FAILED(last.hres)

(***************************************************************************)
(* Failing arguments, checked under SpecInvoke.                            *)
(***************************************************************************)
\* The parameters of the call in inv that have a supplied argument, and the
\* argument of parameter i (rgvarg holds the arguments last to first).
SuppliedParams == 1..(IF Len(inv.rgvarg) < inv.func.argc THEN Len(inv.rgvarg) ELSE inv.func.argc)
SuppliedArg(i) == inv.rgvarg[Len(inv.rgvarg) - i + 1]

\* What parameter i is declared as: its type, and whether it names an
\* interface the argument is narrowed to.
DeclaredParam(i) == DeclaredMethod(inv.func).lprgelemdescParam[i]
DeclaresNarrowing(i) == DeclaredParam(i).vt = "VT_PTR" /\ DeclaredParam(i).userdefined
DeclaredType(i) == IF DeclaresNarrowing(i) THEN "VT_DISPATCH" ELSE DeclaredParam(i).vt

\* The supplied argument of parameter i coerced to the declared type.
Coerced(i) ==
    IF SuppliedArg(i).vt = DeclaredType(i) THEN [hres |-> S_OK, v |-> SuppliedArg(i)]
    ELSE change_type(SuppliedArg(i), DeclaredType(i))

\* The error of parameter i: that of its coercion, else that of the capability
\* query on a non-null object, else none.
ArgError(i) ==
    IF FAILED(Coerced(i).hres) THEN Coerced(i).hres
    ELSE IF DeclaresNarrowing(i) /\ Coerced(i).v.val # 0
    THEN QueryInterface(Coerced(i).v.val, IID_Target).hres
    ELSE S_OK

FailingParams == { i \in SuppliedParams : FAILED(ArgError(i)) }
FirstFailing == CHOOSE i \in FailingParams : \A j \in FailingParams : i <= j

\* The call in inv reached the marshalling loop.
Marshalled == OnNativePath /\ ~ArgCountTooSmall(inv.func, Len(inv.rgvarg))

\* C26: when a supplied argument cannot be coerced to its declared type, or a
\* non-null object argument does not expose the interface its parameter
\* names, the call ends with that error and the member is not invoked; a null
\* object argument of such a parameter reaches the member as null.
C26_BadArgumentFailsCall ==
    Marshalled =>
        /\ FailingParams # {} =>
              inv.out.path = "none" /\ inv.out.hres = ArgError(FirstFailing)
        /\ FailingParams = {} =>
              /\ inv.out.path = "native"
              /\ \A i \in SuppliedParams :
                    (DeclaresNarrowing(i) /\ Coerced(i).v.val = 0) =>
                        inv.out.args[i] = Variant("VT_DISPATCH", 0)

\* A call with two arguments whose object argument does not expose the
\* interface of its parameter.
C26_Witness ==
    /\ Marshalled
    /\ Len(inv.rgvarg) = 2
    /\ \E i \in SuppliedParams :
          /\ DeclaresNarrowing(i)
          /\ SuppliedArg(i) = Variant("VT_DISPATCH", ObjWithoutTarget)
          /\ FirstFailing = i
    /\ inv.out.path = "none"
    /\ inv.out.hres = E_NOINTERFACE

(***************************************************************************)
(* The flags and the value of a slot, checked under SpecDisp.              *)
(***************************************************************************)
\* Slot i of o holds no value: its variant is VT_EMPTY.
HoldsNoValue(o, i) == objs[o].props[i].var.vt = "VT_EMPTY"

\* Slot i of o carries the index of a slot of o's prototype.
CarriesPrototypeIndex(o, i) ==
    /\ objs[o].prototype # NoObj
    /\ objs[o].props[i].var.val \in 1..Len(objs[objs[o].prototype].props)

PopInsts == {"a", "b"}
PopNames == {n_x, n_X}
\* Slots a store holds at most.
MaxPopSlots == 2

\* This->dynamic_data == NULL
NoData == << <<0>> >>

\* The callback sees a NULL dynamic_data while it runs.
DataUnsetWhilePopulating(block) == NoData

\* Line 772 before line 777: the block is in This->dynamic_data when
\* populate_props is called.
DataSetBeforePopulate(block) == block

NoPopOp == [on |-> "", name |-> <<>>, alloc |-> FALSE, stage |-> "idle"]
NoPopLast == [on |-> "", name |-> <<>>, hres |-> "", runs |-> 0]

PopIdle == objs.op.stage = "idle"

\* get_dynamic_data of instance i, entered with the instance as st says:
\* "ready" when the block exists, "failed" when calloc fails, "populate" when
\* the block is new and the class has populate_props.
get_dynamic_data(st, i, calloc_ok) ==
    IF st.inst[i].dynamic_data # NoData THEN [st |-> st, stage |-> "ready"]
    ELSE IF ~calloc_ok THEN [st |-> st, stage |-> "failed"]
    ELSE IF st.inst[i].populate_props
    THEN [st |-> [st EXCEPT !.inst[i].dynamic_data = DataSetBeforePopulate(<<>>),
                            !.inst[i].runs = @ + 1],
          stage |-> "populate"]
    ELSE [st |-> [st EXCEPT !.inst[i].dynamic_data = <<>>], stage |-> "ready"]

\* The scan and the append of get_dynamic_prop on a block that exists.
PopLookup(props, name, alloc) ==
    IF \E k \in 1..Len(props) : props[k] = name THEN [props |-> props, hres |-> S_OK]
    ELSE IF alloc THEN [props |-> Append(props, name), hres |-> S_OK]
    ELSE [props |-> props, hres |-> DISP_E_UNKNOWNNAME]

\* A script looks name up on instance i (get_dynamic_prop): the operation
\* starts with get_dynamic_data.
PopStart(i, name, alloc, calloc_ok) ==
    /\ PopIdle
    /\ LET g == get_dynamic_data(objs, i, calloc_ok)
       IN  /\ objs' = [g.st EXCEPT !.op = [on |-> i, name |-> name, alloc |-> alloc,
                                           stage |-> g.stage]]
           /\ last' = last
    /\ UNCHANGED <<info_cache, built, cs_owner, pc, call, returned, inv>>

\* populate_props of the class, running: it adds a slot to the instance with
\* dispex_get_dynid, which goes through get_dynamic_prop and get_dynamic_data
\* again.
PopCallbackAdds(name, calloc_ok) ==
    /\ objs.op.stage = "populate"
    /\ LET i == objs.op.on
           g == get_dynamic_data(objs, i, calloc_ok)
       IN  /\ g.stage # "failed"
           /\ g.stage = "populate" => g.st.inst[i].runs <= MaxPopSlots
           /\ Len(g.st.inst[i].dynamic_data) < MaxPopSlots
           /\ objs' = IF g.stage = "populate" THEN g.st
                      ELSE [g.st EXCEPT !.inst[i].dynamic_data =
                                PopLookup(g.st.inst[i].dynamic_data, name, TRUE).props]
           /\ last' = last
    /\ UNCHANGED <<info_cache, built, cs_owner, pc, call, returned, inv>>

\* populate_props returns to get_dynamic_data, which returns the block.
PopCallbackReturns ==
    /\ objs.op.stage = "populate"
    /\ objs' = [objs EXCEPT !.op.stage = "ready"]
    /\ last' = last
    /\ UNCHANGED <<info_cache, built, cs_owner, pc, call, returned, inv>>

\* The operation computes its result and returns.
PopFinish ==
    /\ objs.op.stage \in {"ready", "failed"}
    /\ LET i == objs.op.on
           r == IF objs.op.stage = "failed"
                THEN [props |-> objs.inst[i].dynamic_data, hres |-> E_OUTOFMEMORY]
                ELSE PopLookup(objs.inst[i].dynamic_data, objs.op.name, objs.op.alloc)
       IN  /\ objs.op.stage = "ready" => Len(r.props) <= MaxPopSlots
           /\ objs' = [objs EXCEPT !.inst[i].dynamic_data = r.props, !.op = NoPopOp]
           /\ last' = [on |-> i, name |-> objs.op.name, hres |-> r.hres,
                       runs |-> objs.inst[i].runs]
    /\ UNCHANGED <<info_cache, built, cs_owner, pc, call, returned, inv>>

PopInit ==
    /\ info_cache = [s \in Slots |-> NullTable]
    /\ built = [s \in Slots |-> 0]
    /\ cs_owner = NoThread
    /\ pc = [t \in Threads |-> "idle"]
    /\ call = [t \in Threads |-> NoCall]
    /\ returned = [s \in Slots |-> {}]
    /\ \E p \in [PopInsts -> BOOLEAN] :
          objs = [inst |-> [i \in PopInsts |->
                              [dynamic_data |-> NoData, populate_props |-> p[i], runs |-> 0]],
                  op |-> NoPopOp]
    /\ last = NoPopLast
    /\ inv = NoObjects

PopNext ==
    \/ \E i \in PopInsts, name \in PopNames, alloc \in BOOLEAN, calloc_ok \in BOOLEAN :
          PopStart(i, name, alloc, calloc_ok)
    \/ \E name \in PopNames, calloc_ok \in BOOLEAN : PopCallbackAdds(name, calloc_ok)
    \/ PopCallbackReturns
    \/ PopFinish

SpecPopulate == PopInit /\ [][PopNext]_vars

(***************************************************************************)
(* Claims about populate_props, checked under SpecPopulate.                *)
(***************************************************************************)
\* populate_props has run for i exactly when i has its block and its class
\* has the callback; it never ran twice.
RanWithTheBlock(i) ==
    objs.inst[i].runs =
        (IF objs.inst[i].populate_props /\ objs.inst[i].dynamic_data # NoData THEN 1 ELSE 0)

\* An operation that is about to compute its result has the block, the
\* callback having returned.
ResultAfterPopulate ==
    objs.op.stage = "ready" =>
        /\ objs.inst[objs.op.on].dynamic_data # NoData
        /\ objs.inst[objs.op.on].populate_props => objs.inst[objs.op.on].runs = 1

\* C28: populate_props runs at most once for an instance, when the first
\* operation that gets the instance's dynamic data allocates it and before
\* that operation computes its result; what the callback does to the
\* instance's dynamic properties while it runs does not run it again.
C28_PopulateOnce ==
    /\ \A i \in PopInsts : RanWithTheBlock(i)
    /\ ResultAfterPopulate

\* The first lookup on an instance found, without creating it, a name its
\* callback had added while it ran, the callback having added two slots.
C28_Witness ==
    /\ PopIdle
    /\ last.on # "" /\ last.hres = S_OK /\ last.runs = 1
    /\ Len(objs.inst[last.on].dynamic_data) = 2
    /\ \E j \in PopInsts \ {last.on} :
          objs.inst[j].populate_props /\ objs.inst[j].dynamic_data = NoData

(***************************************************************************)
(* Lookups without fdexNameEnsure, checked under SpecDisp.                 *)
(***************************************************************************)
\* No slot of o matches name under the case rule of flags.
AbsentFrom(o, name, flags) == FindProp(objs[o].props, name, flags, 1) = 0

\* The slots of the prototype of o that have exactly the name and are not
\* flagged DYNPROP_DELETED.
LiveInPrototype(o, name) ==
    IF objs[o].prototype = NoObj THEN {}
    ELSE { k \in 1..Len(objs[objs[o].prototype].props) :
             /\ objs[objs[o].prototype].props[k].name = name
             /\ DYNPROP_DELETED \notin objs[objs[o].prototype].props[k].flags }

\* r is what the lookup answered: a reference to the prototype's slot was
\* appended to the store of o.
AppendedReference(r, o, name) ==
    /\ r.hres = S_OK
    /\ r.idx = Len(objs[o].props) + 1
    /\ \E k \in LiveInPrototype(o, name) :
          r.objs[o].props =
              Append(objs[o].props, Slot(name, Variant("VT_EMPTY", k), {DYNPROP_PROTREF}))

\* r is what the lookup answered: not found, the store of o as it was.
NotFoundUnchanged(r, o) ==
    r.hres = DISP_E_UNKNOWNNAME /\ r.objs[o].props = objs[o].props

LookupCreatesOnlyReference(r, o, name) ==
    IF LiveInPrototype(o, name) # {} THEN AppendedReference(r, o, name)
    ELSE NotFoundUnchanged(r, o)

\* C29: get_dynamic_prop without fdexNameEnsure for a name no slot of the
\* instance matches appends a DYNPROP_PROTREF slot exactly when the instance
\* has a prototype with a slot of exactly that name that is not deleted;
\* otherwise it answers DISP_E_UNKNOWNNAME and leaves the store as it was.
C29_LookupCreatesOnlyReference ==
    \A name \in {n_x, n_X} : \A flags \in CaseFlags :
        AbsentFrom("inst", name, flags) =>
            LookupCreatesOnlyReference(get_dynamic_prop(objs, "inst", name, flags), "inst", name)

\* Both cases at once: the prototype has a live slot x that no slot of the
\* instance matches and no slot X, and a lookup has just answered not found.
C29_Witness ==
    /\ objs["inst"].prototype = "proto"
    /\ AbsentFrom("inst", n_x, {fdexNameCaseSensitive})
    /\ LiveInPrototype("inst", n_x) # {}
    /\ AbsentFrom("inst", n_X, {fdexNameCaseSensitive})
    /\ LiveInPrototype("inst", n_X) = {}
    /\ last.op = "GetDispID" /\ last.hres = DISP_E_UNKNOWNNAME

(***************************************************************************)
(* Enumeration of the dynamic slots: the steps of DispatchEx_GetNextDispID *)
(* from DISPID_STARTENUM on, and WineDispatchProxyPrivate_PropEnum, on an   *)
(* instance whose store holds slots of every kind.                         *)
(***************************************************************************)
MaxEnumSlots == 3
EnumClasses == {"Widget", "Shape", "Doc"}
\* The flags a slot can carry: a reference to the prototype carries no other.
EnumFlagSets ==
    { {}, {DYNPROP_DELETED}, {DYNPROP_HIDDEN}, {DYNPROP_PROTREF},
      {DYNPROP_DELETED, DYNPROP_HIDDEN} }
\* The name of the slot at index i: x, y, z, ...; no member of a table and no
\* custom member has such a name.
EnumName(i) == <<119 + i>>
EnumNames == { EnumName(i) : i \in 1..(MaxEnumSlots + 1) }
EnumSlot(i, flags) ==
    Slot(EnumName(i),
         IF DYNPROP_PROTREF \in flags THEN Variant("VT_EMPTY", 1)
         ELSE IF DYNPROP_DELETED \in flags THEN VEmpty ELSE Variant("VT_I4", i),
         flags)
EnumStores ==
    UNION { { [i \in 1..n |-> EnumSlot(i, f[i])] : f \in [1..n -> EnumFlagSets] }
            : n \in 0..MaxEnumSlots }
\* desc->prototype_id of the classes: Widget has a prototype of its own.
prototype_id(desc) == IF desc = "Widget" THEN 0 ELSE -1

\* The slot is handed to the callback whatever its flags.
BulkEnumeratesAll(slot) == TRUE
\* The test of line 3174.
BulkEnumerates(slot) ==
    slot.flags \cap {DYNPROP_DELETED, DYNPROP_HIDDEN, DYNPROP_PROTREF} = {}

NameOf(seq) == [k \in 1..Len(seq) |-> seq[k].name]

\* Lines 3147-3160: the names the first loop hands to the callback; the
\* object is no proxy prototype.
PropEnumFuncs(info) ==
    IF prototype_id(info.desc) < 0 THEN NameOf(SelectSeq(info.funcs, EnumeratesEntry))
    ELSE <<>>

\* Lines 3162-3178: the loop over the hook's members from the cursor id on;
\* what it ends with, and the names it hands to the callback.
RECURSIVE HookEnum(_, _)
HookNamed(desc, n, g) ==
    IF FAILED(g.hres) THEN [hres |-> g.hres, names |-> <<>>]
    ELSE [HookEnum(desc, n.pid) EXCEPT !.names = <<g.name>> \o @]

HookAnswered(desc, n) ==
    IF n.hres # S_OK THEN [hres |-> n.hres, names |-> <<>>]
    ELSE HookNamed(desc, n, vtbl_get_name(desc, n.pid))

HookEnum(desc, id) == HookAnswered(desc, vtbl_next_dispid(desc, id))

HookPhase(desc) ==
    IF has_vtbl(desc) THEN HookEnum(desc, DISPID_STARTENUM)
    ELSE [hres |-> S_FALSE, names |-> <<>>]

\* Lines 3170-3179: the names of the store the last loop hands over.
PropEnumDynamic(props) == NameOf(SelectSeq(props, BulkEnumerates))

\* The callback is handed the names of list in turn; its call number fail_at
\* fails, none if fail_at is 0 or beyond the list.
Callbacks(list, fail_at) ==
    IF fail_at \in 1..Len(list)
    THEN [hres |-> E_FAIL, names |-> SubSeq(list, 1, fail_at)]
    ELSE [hres |-> S_OK, names |-> list]

\* What the call returns: c is what the callbacks of the phases before the
\* store made of it, h what the hook's loop ended with, d the callbacks of
\* the store; calloc_ok is whether get_dynamic_data can allocate (line 3170).
PropEnumReturns(c, h, d, has_data, calloc_ok) ==
    IF c.hres # S_OK THEN c
    ELSE IF FAILED(h.hres) THEN [c EXCEPT !.hres = h.hres]
    ELSE IF ~has_data /\ ~calloc_ok THEN [c EXCEPT !.hres = E_OUTOFMEMORY]
    ELSE [hres |-> d.hres, names |-> c.names \o d.names]

PropEnumWith(o, h, fail_at, calloc_ok, before) ==
    PropEnumReturns(Callbacks(before, fail_at), h,
                    Callbacks(PropEnumDynamic(o.props),
                              IF fail_at > Len(before) THEN fail_at - Len(before) ELSE 0),
                    Len(o.props) # 0, calloc_ok)

PropEnumHooked(o, h, fail_at, calloc_ok) ==
    PropEnumWith(o, h, fail_at, calloc_ok, PropEnumFuncs(o.info) \o h.names)

\* WineDispatchProxyPrivate_PropEnum on the object o.
WineDispatchProxyPrivate_PropEnum(o, fail_at, calloc_ok) ==
    PropEnumHooked(o, HookPhase(o.info.desc), fail_at, calloc_ok)

NoEnumLast ==
    [cursor |-> DISPID_STARTENUM, ids |-> <<>>, walk |-> "",
     bulk |-> [hres |-> "", names |-> <<>>]]

\* One more call of GetNextDispID with the identifier the last one answered.
EnumAnswered(r) ==
    last' = IF r.hres = S_OK
            THEN [last EXCEPT !.cursor = r.pid, !.ids = Append(@, r.pid)]
            ELSE [last EXCEPT !.walk = r.hres]

EnumNext ==
    /\ last.walk = ""
    /\ EnumAnswered(DispatchEx_GetNextDispID(objs, "inst", last.cursor))
    /\ UNCHANGED <<info_cache, built, cs_owner, pc, call, returned, objs, inv>>

\* The proxy asks for all names at once.
PropEnum(fail_at, calloc_ok) ==
    /\ last' = [last EXCEPT
                  !.bulk = WineDispatchProxyPrivate_PropEnum(objs["inst"], fail_at, calloc_ok)]
    /\ UNCHANGED <<info_cache, built, cs_owner, pc, call, returned, objs, inv>>

EnumInit ==
    /\ info_cache = [s \in Slots |-> NullTable]
    /\ built = [s \in Slots |-> 0]
    /\ cs_owner = NoThread
    /\ pc = [t \in Threads |-> "idle"]
    /\ call = [t \in Threads |-> NoCall]
    /\ returned = [s \in Slots |-> {}]
    /\ inv = NoInvoke
    /\ last = NoEnumLast
    /\ \E c \in EnumClasses, props \in EnumStores :
          \E tbl \in PreprocessCache[c][0] :
             objs = [inst |-> [NewObj([tbl EXCEPT !.compat_mode = COMPAT_MODE_IE9], NoObj)
                                 EXCEPT !.props = props]]

EnumNextAction ==
    \/ EnumNext
    \/ \E fail_at \in 0..(MaxEnumSlots + 3), calloc_ok \in BOOLEAN : PropEnum(fail_at, calloc_ok)

SpecEnum == EnumInit /\ [][EnumNextAction]_vars

\* The slots that are none of deleted, hidden or a reference to the
\* prototype, in increasing order from index n.
Enumerable(slot) ==
    /\ DYNPROP_DELETED \notin slot.flags
    /\ DYNPROP_HIDDEN \notin slot.flags
    /\ DYNPROP_PROTREF \notin slot.flags

RECURSIVE EnumerableFrom(_, _)
EnumerableFrom(props, n) ==
    IF n > Len(props) THEN <<>>
    ELSE (IF Enumerable(props[n]) THEN <<n>> ELSE <<>>) \o EnumerableFrom(props, n + 1)

IsPrefix(s, t) == Len(s) <= Len(t) /\ s = SubSeq(t, 1, Len(s))
IsEnumName(n) == n \in EnumNames
DynamicIdsOf(seq) == SelectSeq(seq, is_dynamic_dispid)
DynamicNamesOf(seq) == SelectSeq(seq, IsEnumName)
IdsOfSlots(idx) == [k \in 1..Len(idx) |-> DISPID_DYNPROP_0 + idx[k] - 1]
NamesOfSlots(props, idx) == [k \in 1..Len(idx) |-> props[idx[k]].name]

\* C30: the dynamic identifiers the steps of GetNextDispID answer from
\* DISPID_STARTENUM on are those of the slots that are none of deleted,
\* hidden or a reference to the prototype, in increasing slot order, all of
\* them once the enumeration has ended, which it does with S_FALSE; and the
\* names of the store that the bulk enumeration of the proxy bridge hands to
\* its callback are the names of the same slots in the same order, all of
\* them when the call answers S_OK.
C30_DynamicEnumeration ==
    /\ IsPrefix(DynamicIdsOf(last.ids), IdsOfSlots(EnumerableFrom(objs["inst"].props, 1)))
    /\ last.walk # "" =>
          /\ last.walk = S_FALSE
          /\ DynamicIdsOf(last.ids) = IdsOfSlots(EnumerableFrom(objs["inst"].props, 1))
    /\ IsPrefix(DynamicNamesOf(last.bulk.names),
                NamesOfSlots(objs["inst"].props, EnumerableFrom(objs["inst"].props, 1)))
    /\ last.bulk.hres = S_OK =>
          DynamicNamesOf(last.bulk.names)
             = NamesOfSlots(objs["inst"].props, EnumerableFrom(objs["inst"].props, 1))

\* The case of C30 has happened: both enumerations of a store whose first
\* slot is deleted, whose second holds a value and whose third is a
\* reference to the prototype have ended, on an instance of the class with
\* the hook.
C30_Witness ==
    /\ Len(objs["inst"].props) = 3
    /\ objs["inst"].props[1].flags = {DYNPROP_DELETED}
    /\ objs["inst"].props[2].flags = {}
    /\ objs["inst"].props[3].flags = {DYNPROP_PROTREF}
    /\ has_vtbl(objs["inst"].info.desc)
    /\ last.walk = S_FALSE
    /\ DynamicIdsOf(last.ids) = <<DISPID_DYNPROP_0 + 1>>
    /\ Len(last.ids) > 1
    /\ last.bulk.hres = S_OK
    /\ DynamicNamesOf(last.bulk.names) = <<EnumName(2)>>

(***************************************************************************)
(* Case-sensitive lookups in the name table, checked under SpecNames.      *)
(***************************************************************************)
\* What dispex_get_builtin_id answers for the exact name of the entry at
\* index k of the instance's table, asked case-sensitively.
ExactNameId(k) ==
    dispex_get_builtin_id(objs, "inst", objs["inst"].info.funcs[k].name,
                          {fdexNameCaseSensitive})

\* C31: a case-sensitive lookup of the exact name of any member of the
\* instance's table answers S_OK and that member's identifier, also when the
\* table holds another member whose name differs from it only in letter case.
C31_ExactNameFound ==
    \A k \in 1..Len(objs["inst"].info.funcs) :
       /\ ExactNameId(k).hres = S_OK
       /\ ExactNameId(k).id = objs["inst"].info.funcs[k].id

(***************************************************************************)
(* Reflection of the members of several interfaces into one table: the     *)
(* interfaces of a class are processed one after the other, and each hands *)
(* add_func_info the FUNCDESCs the type library has for it.                *)
(***************************************************************************)
\* FUNCDESCs handed to add_func_info in one construction.
MaxAdds == 3
ReflectTids == << IWidget_tid, IShape_tid, IShape2_tid >>
ReflectIds == {1, 2}
ReflectNames == {n_area, n_Area, n_tag}
ReflectDescs ==
    { FuncDesc(memid, name, "DISPATCH_METHOD", {}, "VT_I4", <<>>, 0, 7)
         : memid \in ReflectIds, name \in ReflectNames }
    \cup { FuncDesc(memid, name, "DISPATCH_PROPERTYGET", {}, "VT_BSTR", <<>>, 0, 8)
         : memid \in ReflectIds, name \in ReflectNames }
    \cup { FuncDesc(memid, name, "DISPATCH_PROPERTYPUT", {}, "VT_VOID",
                    << PlainParam("VT_BSTR") >>, 0, 9)
         : memid \in ReflectIds, name \in ReflectNames }

NoReflectLast == [op |-> "", tid |-> "", desc |-> <<>>, before |-> <<>>]

\* process_interface hands the next FUNCDESC of the interface being
\* processed to add_func_info.
ReflectFunc(desc) ==
    /\ objs.adds < MaxAdds
    /\ objs' = [objs EXCEPT
                  !.data = add_func_info(@, ReflectTids[objs.tid], desc, FALSE, <<>>),
                  !.adds = @ + 1]
    /\ last' = [op |-> "add", tid |-> ReflectTids[objs.tid], desc |-> desc,
                before |-> objs.data]
    /\ UNCHANGED <<info_cache, built, cs_owner, pc, call, returned, inv>>

\* The loop of preprocess_dispex_data goes on to the next interface.
ReflectNextTid ==
    /\ objs.tid < Len(ReflectTids)
    /\ objs' = [objs EXCEPT !.tid = @ + 1]
    /\ last' = [last EXCEPT !.op = "tid"]
    /\ UNCHANGED <<info_cache, built, cs_owner, pc, call, returned, inv>>

ReflectInit ==
    /\ info_cache = [s \in Slots |-> NullTable]
    /\ built = [s \in Slots |-> 0]
    /\ cs_owner = NoThread
    /\ pc = [t \in Threads |-> "idle"]
    /\ call = [t \in Threads |-> NoCall]
    /\ returned = [s \in Slots |-> {}]
    /\ inv = NoInvoke
    /\ objs = [data |-> [funcs |-> <<>>, func_disp_cnt |-> 0], tid |-> 1, adds |-> 0]
    /\ last = NoReflectLast

ReflectNext ==
    \/ \E desc \in ReflectDescs : ReflectFunc(desc)
    \/ ReflectNextTid

SpecReflect == ReflectInit /\ [][ReflectNext]_vars

\* The entries of funcs that an earlier interface than tid left and that
\* have the identifier or the name of desc.
ReflectedBefore(funcs, tid, desc) ==
    { k \in 1..Len(funcs) :
         /\ funcs[k].tid # tid
         /\ funcs[k].id = desc.memid \/ funcs[k].name = desc.name }

\* C32: when add_func_info is handed a member whose identifier or name an
\* entry of another, earlier processed interface already has, it leaves the
\* table as it was; and no two entries of the table have the same identifier
\* or the same name.
C32_FirstInterfaceWins ==
    /\ \A i, j \in 1..Len(objs.data.funcs) :
          i # j => /\ objs.data.funcs[i].id # objs.data.funcs[j].id
                   /\ objs.data.funcs[i].name # objs.data.funcs[j].name
    /\ (last.op = "add" /\ ReflectedBefore(last.before.funcs, last.tid, last.desc) # {})
          => objs.data = last.before

\* The case of C32 has happened: an interface reflected a name that an
\* entry of an earlier interface has under another identifier, and its own
\* table already held a member of that later interface.
C32_Witness ==
    /\ last.op = "add"
    /\ \E k \in ReflectedBefore(last.before.funcs, last.tid, last.desc) :
          /\ last.before.funcs[k].name = last.desc.name
          /\ last.before.funcs[k].id # last.desc.memid
    /\ \E k \in 1..Len(last.before.funcs) : last.before.funcs[k].tid = last.tid

(***************************************************************************)
(* Methods the native call cannot serve: a table compiled from a method of *)
(* any shape and a property, and CALLs of the method.                      *)
(***************************************************************************)
MaxParams == 2
FallbackRets == {"VT_I4", "VT_VOID", "VT_PTR", "VT_VARIANT"}
FallbackParams ==
    { PlainParam("VT_I4"), PlainParam("VT_VARIANT"),
      Param("VT_PTR", TRUE, FALSE, VEmpty),
      Param("VT_BSTR", FALSE, TRUE, Variant("VT_BSTR", 1)) }
\* The FUNCDESCs of the method: oVft is its slot after the IDispatch functions.
FallbackDescs ==
    { FuncDesc(1, n_area, "DISPATCH_METHOD", {}, ret, params, opt, 7) :
         ret \in FallbackRets, params \in SeqsUpTo(FallbackParams, MaxParams),
         opt \in {0, 1} }
FallbackArgLists ==
    SeqsUpTo({Variant("VT_I4", 1), Variant("VT_DISPATCH", ObjWithTarget)}, MaxParams)

\* The table of a class whose one interface declares the method desc and
\* the property tag: the identifiers 1 and 2 and the names area and tag are
\* in the order the two sorts leave them in.
FallbackData(desc, hook) ==
    add_func_info(add_func_info([funcs |-> <<>>, func_disp_cnt |-> 0],
                                IWidget_tid, desc, hook, <<>>),
                  IWidget_tid,
                  FuncDesc(2, n_tag, "DISPATCH_PROPERTYGET", {}, "VT_BSTR", <<>>, 0, 8),
                  FALSE, <<>>)

FallbackTable(data) ==
    [desc |-> "Widget", compat_mode |-> COMPAT_MODE_IE9, funcs |-> data.funcs,
     name_table |-> <<1, 2>>, func_disp_cnt |-> data.func_disp_cnt]

\* A CALL of the method reaches invoke_builtin_function.
FallbackCall(rgvarg, this_ok, hook_hres, ti_ok, member_hres) ==
    /\ ~inv.busy
    /\ inv' = [busy |-> TRUE, func |-> objs["inst"].info.funcs[1], rgvarg |-> rgvarg,
               this_ok |-> this_ok,
               out |-> invoke_builtin_function(objs["inst"].info.funcs[1], rgvarg, this_ok,
                                               hook_hres, ti_ok, member_hres, member_hres)]
    /\ last' = [last EXCEPT !.hook_hres = hook_hres, !.ti_ok = ti_ok]
    /\ UNCHANGED <<info_cache, built, cs_owner, pc, call, returned, objs>>

FallbackInit ==
    /\ info_cache = [s \in Slots |-> NullTable]
    /\ built = [s \in Slots |-> 0]
    /\ cs_owner = NoThread
    /\ pc = [t \in Threads |-> "idle"]
    /\ call = [t \in Threads |-> NoCall]
    /\ returned = [s \in Slots |-> {}]
    /\ inv = NoInvoke
    /\ \E desc \in FallbackDescs, hook \in BOOLEAN :
          /\ objs = [inst |-> NewObj(FallbackTable(FallbackData(desc, hook)), NoObj)]
          /\ last = [desc |-> desc, hook_hres |-> S_FALSE, ti_ok |-> TRUE]

FallbackNext ==
    \/ \E rgvarg \in FallbackArgLists, this_ok \in BOOLEAN, hook_hres \in {S_FALSE, S_OK},
          ti_ok \in BOOLEAN, member_hres \in {S_OK, E_FAIL} :
          FallbackCall(rgvarg, this_ok, hook_hres, ti_ok, member_hres)
    \/ InvokeDone

SpecFallback == FallbackInit /\ [][FallbackNext]_vars

\* The coercion set of the native call.
CoercionSet ==
    {"VT_I2", "VT_UI2", "VT_I4", "VT_UI4", "VT_R4", "VT_BSTR", "VT_DISPATCH", "VT_BOOL"}

\* The declaration has a return type or a parameter type outside the
\* coercion set (a pointer to a declared interface is an object parameter,
\* a returned pointer an object), or optional parameters.
UnsupportedShape(desc) ==
    \/ desc.elemdescFunc \notin CoercionSet \cup {"VT_VOID", "VT_PTR"}
    \/ desc.cParamsOpt # 0
    \/ \E i \in 1..desc.cParams :
          /\ desc.lprgelemdescParam[i].vt \notin CoercionSet
          /\ ~(desc.lprgelemdescParam[i].vt = "VT_PTR" /\ desc.lprgelemdescParam[i].userdefined)

\* The method of the table.
TheMethod == objs["inst"].info.funcs[1]

\* The entry is in the table under the method's identifier and name.
Recorded(desc) ==
    /\ get_builtin_func(objs["inst"].info, desc.memid) = 1
    /\ TheMethod.id = desc.memid /\ TheMethod.name = desc.name
    /\ TheMethod.func_disp_idx >= 0
    /\ \A grfdex \in CaseFlags :
          /\ dispex_get_builtin_id(objs, "inst", desc.name, grfdex).hres = S_OK
          /\ dispex_get_builtin_id(objs, "inst", desc.name, grfdex).id = desc.memid

\* A call that got past the target's interface and the member's hook.
ReachedDispatch ==
    inv.busy /\ inv.this_ok /\ (TheMethod.hook => last.hook_hres = S_FALSE)

\* C33: a method declared with a return or parameter type outside the
\* coercion set, or with optional parameters, is in the table under its name
\* and identifier, without a native offset, and no CALL of it takes the
\* native path: one that gets past the target's interface and the member's
\* hook goes to typeinfo_invoke.  The native path is taken only with a
\* return type the switch of invoke_builtin_function has a case for, so its
\* assertion never fails.
C33_UnsupportedFallsBack ==
    /\ Recorded(last.desc)
    /\ UnsupportedShape(last.desc) =>
          /\ TheMethod.call_vtbl_off = 0
          /\ inv.out.path # "native"
          /\ (ReachedDispatch /\ last.ti_ok) => inv.out.path = "typeinfo"
    /\ inv.out.path # "assert"
    /\ inv.out.path = "native" =>
          TheMethod.prop_vt \in CoercionSet \cup {"VT_VOID", "VT_PTR"}

\* The case of C33 has happened: a method with supported parameters and a
\* return type outside the coercion set was called with arguments the
\* native path would have taken, and the call went to typeinfo_invoke.
C33_Witness ==
    /\ last.desc.elemdescFunc = "VT_VARIANT"
    /\ last.desc.cParamsOpt = 0
    /\ last.desc.cParams = 1
    /\ last.desc.lprgelemdescParam[1] = PlainParam("VT_I4")
    /\ ReachedDispatch
    /\ Len(inv.rgvarg) = 1
    /\ inv.out.path = "typeinfo"
    /\ inv.out.hres = S_OK

(***************************************************************************)
(* Legacy prototypes of one realm (an inner window): instances are made    *)
(* and released, scripts take and drop references of their own, and the    *)
(* realm gives up its references when it goes.                             *)
(***************************************************************************)
ProtIds == {1, 2}
LegacyInsts == {"a", "b"}
\* Prototype objects allocated in one run, and references a script holds on one.
MaxProtos == 3
MaxScriptRefs == 1
ProtoObjs == 1..MaxProtos

\* The request adds no reference for its caller.
NoRefForCaller(ref) == ref
\* Line 2103: IUnknown_AddRef on the prototype handed out.
AddRefForCaller(ref) == ref + 1

NoProt == 0
\* A legacy_prototype that malloc has not handed out yet.
FreeProto == [ref |-> 0, alive |-> FALSE, prot_id |-> 0, script |-> 0]

\* get_legacy_prototype(window, prot_id, compat_mode) on the realm st;
\* malloc_ok is whether malloc succeeds, fresh the object it hands out.
\* Answers the realm and the pointer returned.
get_legacy_prototype(st, prot_id, malloc_ok, fresh) ==
    IF st.legacy_prototypes[prot_id] # NoProt
    THEN [st |-> [st EXCEPT !.heap[st.legacy_prototypes[prot_id]].ref = AddRefForCaller(@)],
          prot |-> st.legacy_prototypes[prot_id]]
    ELSE IF ~malloc_ok THEN [st |-> st, prot |-> NoProt]
    ELSE [st |-> [st EXCEPT !.legacy_prototypes[prot_id] = fresh,
                            !.heap[fresh] = [ref |-> AddRefForCaller(1), alive |-> TRUE,
                                             prot_id |-> prot_id, script |-> 0]],
          prot |-> fresh]

\* legacy_prototype_Release: at zero the object is freed.  Releasing an
\* object that was freed already is a use after free.
legacy_prototype_Release(st, o) ==
    IF ~st.heap[o].alive THEN [st EXCEPT !.fault = TRUE]
    ELSE IF st.heap[o].ref = 1 THEN [st EXCEPT !.heap[o].ref = 0, !.heap[o].alive = FALSE]
    ELSE [st EXCEPT !.heap[o].ref = @ - 1]

LegacyUnchanged == UNCHANGED <<info_cache, built, cs_owner, pc, call, inv>>

\* The object malloc hands out next.
FreshProto(st) ==
    CHOOSE o \in ProtoObjs :
       /\ st.heap[o].prot_id = 0
       /\ \A q \in ProtoObjs : st.heap[q].prot_id = 0 => o <= q

InstanceMade(r, i, prot_id) ==
    /\ objs' = [r.st EXCEPT !.inst[i] = [alive |-> TRUE, prototype |-> r.prot]]
    /\ returned' = IF r.prot = NoProt THEN returned
                   ELSE [returned EXCEPT ![prot_id] = @ \cup {r.prot}]
    /\ last' = [op |-> "init_dispatch", prot |-> r.prot]

\* init_dispatch of an instance of the class with the identity prot_id, in
\* a realm of the mode given.
NewInstance(i, prot_id, mode, malloc_ok) ==
    /\ objs.window
    /\ ~objs.inst[i].alive
    /\ \E o \in ProtoObjs : objs.heap[o].prot_id = 0
    /\ IF ModeRank(mode) < ModeRank(COMPAT_MODE_IE9)
       THEN InstanceMade(get_legacy_prototype(objs, prot_id, malloc_ok, FreshProto(objs)),
                         i, prot_id)
       ELSE InstanceMade([st |-> objs, prot |-> NoProt], i, prot_id)
    /\ LegacyUnchanged

\* release_dispex of an instance: lines 3446-3447.
ReleaseInstance(i) ==
    /\ objs.inst[i].alive
    /\ objs' = [(IF objs.inst[i].prototype # NoProt
                 THEN legacy_prototype_Release(objs, objs.inst[i].prototype)
                 ELSE objs)
                  EXCEPT !.inst[i] = [alive |-> FALSE, prototype |-> NoProt]]
    /\ last' = [op |-> "release_dispex", prot |-> objs.inst[i].prototype]
    /\ UNCHANGED returned
    /\ LegacyUnchanged

\* A script that reached the prototype through an instance keeps a
\* reference of its own.
HolderAddRef(i) ==
    /\ objs.inst[i].alive /\ objs.inst[i].prototype # NoProt
    /\ objs.heap[objs.inst[i].prototype].script < MaxScriptRefs
    /\ objs' = [objs EXCEPT !.heap[objs.inst[i].prototype].ref = @ + 1,
                            !.heap[objs.inst[i].prototype].script = @ + 1]
    /\ last' = [op |-> "AddRef", prot |-> objs.inst[i].prototype]
    /\ UNCHANGED returned
    /\ LegacyUnchanged

HolderRelease(o) ==
    /\ objs.heap[o].script > 0
    /\ objs' = [legacy_prototype_Release(objs, o) EXCEPT !.heap[o].script = @ - 1]
    /\ last' = [op |-> "Release", prot |-> o]
    /\ UNCHANGED returned
    /\ LegacyUnchanged

\* The realm goes: it releases the prototypes of its slots, and no instance
\* is made in it any more.
RECURSIVE ReleaseSlots(_, _)
ReleaseSlots(st, ids) ==
    IF ids = {} THEN st
    ELSE LET p == CHOOSE q \in ids : TRUE
         IN  ReleaseSlots(IF st.legacy_prototypes[p] = NoProt THEN st
                          ELSE [legacy_prototype_Release(st, st.legacy_prototypes[p])
                                  EXCEPT !.legacy_prototypes[p] = NoProt],
                          ids \ {p})

ReleaseRealm ==
    /\ objs.window
    /\ objs' = [ReleaseSlots(objs, ProtIds) EXCEPT !.window = FALSE]
    /\ last' = [op |-> "release_window", prot |-> NoProt]
    /\ UNCHANGED returned
    /\ LegacyUnchanged

LegacyInit ==
    /\ info_cache = [s \in Slots |-> NullTable]
    /\ built = [s \in Slots |-> 0]
    /\ cs_owner = NoThread
    /\ pc = [t \in Threads |-> "idle"]
    /\ call = [t \in Threads |-> NoCall]
    /\ inv = NoInvoke
    /\ returned = [p \in ProtIds |-> {}]
    /\ objs = [window |-> TRUE, fault |-> FALSE,
               legacy_prototypes |-> [p \in ProtIds |-> NoProt],
               heap |-> [o \in ProtoObjs |-> FreeProto],
               inst |-> [i \in LegacyInsts |-> [alive |-> FALSE, prototype |-> NoProt]]]
    /\ last = [op |-> "", prot |-> NoProt]

LegacyNext ==
    \/ \E i \in LegacyInsts, prot_id \in ProtIds, mode \in {COMPAT_MODE_IE8, COMPAT_MODE_IE9},
          malloc_ok \in BOOLEAN : NewInstance(i, prot_id, mode, malloc_ok)
    \/ \E i \in LegacyInsts : ReleaseInstance(i)
    \/ \E i \in LegacyInsts : HolderAddRef(i)
    \/ \E o \in ProtoObjs : HolderRelease(o)
    \/ ReleaseRealm

SpecLegacy == LegacyInit /\ [][LegacyNext]_vars

\* The instances that refer to the prototype object o.
InstancesOf(o) == { i \in LegacyInsts : objs.inst[i].alive /\ objs.inst[i].prototype = o }
RealmRefers(o) == \E p \in ProtIds : objs.legacy_prototypes[p] = o

\* C34: the requests for the legacy prototype of one class identity in the
\* realm have all been answered with one and the same object; every object
\* counts one reference for each instance that refers to it, one for the
\* realm while its slot holds it, and those scripts took; and an object an
\* instance or the realm refers to has not been destroyed.
C34_OnePrototypePerIdentity ==
    /\ ~objs.fault
    /\ \A p \in ProtIds : Cardinality(returned[p]) <= 1
    /\ \A p \in ProtIds :
          (objs.window /\ returned[p] # {}) => returned[p] = {objs.legacy_prototypes[p]}
    /\ \A o \in ProtoObjs :
          /\ objs.heap[o].ref = Cardinality(InstancesOf(o))
                                   + (IF RealmRefers(o) THEN 1 ELSE 0) + objs.heap[o].script
          /\ (InstancesOf(o) # {} \/ RealmRefers(o)) => objs.heap[o].alive

\* The case of C34 has happened: two instances got the same prototype, the
\* realm and one of the instances have gone, and the prototype lives on
\* with the one reference of the instance that is left.
C34_Witness ==
    /\ ~objs.window
    /\ \E o \in ProtoObjs :
          /\ Cardinality(InstancesOf(o)) = 1
          /\ objs.heap[o].alive
          /\ objs.heap[o].ref = 1
          /\ returned[objs.heap[o].prot_id] = {o}
    /\ last.op = "release_dispex"
    /\ last.prot # NoProt

(***************************************************************************)
(* The lifetime of function objects, checked under SpecFunc.               *)
(***************************************************************************)
\* The assertion of Function_Release held when the function object i was
\* freed: nothing changes obj after that.
AssertedAtRelease(i) == objs.fobj[i].freed => objs.fobj[i].obj = NoObj

\* C35: a function object of a method whose reference count reached zero had
\* its owner link cleared before, so the assertion of Function_Release
\* held; as long as its instance has not detached it, it counts the
\* reference of the entry's func_obj and is not freed, whatever was put into
\* the entry's slot or reset since.
C35_FreedOnlyDetached ==
    \A i \in FuncObjs :
       /\ AssertedAtRelease(i)
       /\ objs.fobj[i].ref >= 0
       /\ \A o \in FuncOwners :
             objs.inst[o].func_obj = i => (objs.fobj[i].ref >= 1 /\ ~objs.fobj[i].freed)

\* The case of C35 has happened: the script dropped the last reference to
\* the function object of an instance that had been destroyed, which freed
\* it, while the slot of the other instance holds a value put over its
\* function object.
C35_Witness ==
    /\ last.op = "release"
    /\ objs.fobj[last.fobj].freed
    /\ objs.fobj[last.fobj].obj = NoObj
    /\ \E o \in FuncInsts :
          /\ objs.inst[o].alive
          /\ HasFuncObj(objs, o)
          /\ ~IsDefault(objs.inst[o])

(***************************************************************************)
(* PUT by identifier on a flagged dynamic slot, checked under SpecDisp.    *)
(***************************************************************************)
\* A value no action of the specification puts, so that it is told apart
\* from what the prototype's slots hold.
OtherValue == Variant("VT_I4", 2)

\* Slot i of o is flagged DYNPROP_DELETED or DYNPROP_PROTREF.
FlaggedSlot(o, i) ==
    objs[o].props[i].flags \cap {DYNPROP_DELETED, DYNPROP_PROTREF} # {}

\* g is what GET on the identifier answered after the PUT of v.
GetReturns(g, v) == g.hres = S_OK /\ g.val = v

\* g is what get_id of the slot's name answered after the PUT: it found a
\* slot, and under a case-sensitive lookup the one that was put.
NameFoundAgain(g, id, flags) ==
    /\ g.hres = S_OK
    /\ fdexNameCaseInsensitive \notin flags => g.id = id

\* p is what the PUT of v on slot i of o answered.
AfterFlaggedPut(p, o, i, v, caseflags) ==
    /\ p.hres = S_OK
    /\ p.objs[o].props[i].var = v
    /\ p.objs[o].props[i].flags \cap {DYNPROP_DELETED, DYNPROP_PROTREF} = {}
    /\ \A q \in ObjIds \ {o} : p.objs[q] = objs[q]
    /\ GetReturns(dispex_invoke(p.objs, o, DISPID_DYNPROP_0 + i - 1, DISPATCH_PROPERTYGET,
                                <<>>, FALSE, S_OK), v)
    /\ \A flags \in caseflags :
          NameFoundAgain(DispatchEx_GetDispID(p.objs, o, objs[o].props[i].name, flags),
                         DISPID_DYNPROP_0 + i - 1, flags)

FlaggedPutRevives(caseflags) ==
    \A o \in LiveObjs : \A i \in 1..Len(objs[o].props) :
        FlaggedSlot(o, i) =>
            AfterFlaggedPut(dispex_invoke(objs, o, DISPID_DYNPROP_0 + i - 1,
                                          DISPATCH_PROPERTYPUT, <<OtherValue>>, TRUE, S_OK),
                            o, i, OtherValue, caseflags)

\* C36: a PUT by identifier on a dynamic slot flagged DYNPROP_DELETED or
\* DYNPROP_PROTREF answers S_OK, stores the value in the instance's own slot
\* and clears both flags; the GET on that identifier that follows answers the
\* value put, get_id of the slot's name without fdexNameEnsure finds the name
\* under every case rule (the slot itself under a case-sensitive one), and the
\* prototype's store is as it was.
C36_PutRevivesSlot == FlaggedPutRevives(CaseFlags)

(***************************************************************************)
(* Deleting an own property that the prototype also has, under SpecDisp.   *)
(***************************************************************************)
\* Slot i of o holds a property of o's own that is not deleted.
OwnLiveSlot(o, i) ==
    objs[o].props[i].flags \cap {DYNPROP_DELETED, DYNPROP_PROTREF} = {}

\* r is what GET on the identifier answered; k is the prototype's slot.
ReadsPrototype(r, stores, o, k) ==
    r.hres = S_OK /\ r.val = stores[stores[o].prototype].props[k].var

\* p is what a PUT of v on the prototype's slot k answered: the GET on the
\* instance's identifier that follows answers v.
ReadsPrototypeAfterPut(p, o, id, k, v) ==
    /\ p.hres = S_OK
    /\ ReadsPrototype(dispex_invoke(p.objs, o, id, DISPATCH_PROPERTYGET, <<>>, FALSE, S_OK),
                      p.objs, o, k)
    /\ dispex_invoke(p.objs, o, id, DISPATCH_PROPERTYGET, <<>>, FALSE, S_OK).val = v

\* g is what get_id of the name answered after the delete.
RefersAfterDelete(g, o, i, k, flags) ==
    /\ g.hres = S_OK
    /\ fdexNameCaseInsensitive \notin flags =>
          /\ g.id = DISPID_DYNPROP_0 + i - 1
          /\ Len(g.objs[o].props) = Len(objs[o].props)
          /\ g.objs[o].props[i].flags \cap {DYNPROP_DELETED, DYNPROP_PROTREF}
                 = {DYNPROP_PROTREF}
          /\ ReadsPrototype(dispex_invoke(g.objs, o, g.id, DISPATCH_PROPERTYGET,
                                          <<>>, FALSE, S_OK), g.objs, o, k)
          /\ ReadsPrototypeAfterPut(dispex_invoke(g.objs, objs[o].prototype,
                                                  DISPID_DYNPROP_0 + k - 1,
                                                  DISPATCH_PROPERTYPUT, <<OtherValue>>,
                                                  TRUE, S_OK),
                                    o, g.id, k, OtherValue)

\* d is what the delete of slot i answered; below IE8 it deletes nothing and
\* answers E_NOTIMPL.
AfterOwnDeleted(d, o, i, k, caseflags) ==
    d.hres = S_OK =>
       \A flags \in caseflags :
          RefersAfterDelete(DispatchEx_GetDispID(d.objs, o, objs[o].props[i].name, flags),
                            o, i, k, flags)

DeletedOwnRefers(caseflags) ==
    \A o \in LiveObjs : \A i \in 1..Len(objs[o].props) :
        OwnLiveSlot(o, i) =>
            \A k \in LiveInPrototype(o, objs[o].props[i].name) :
                AfterOwnDeleted(DispatchEx_DeleteMemberByDispID(objs, o, DISPID_DYNPROP_0 + i - 1),
                                o, i, k, caseflags)

\* C37: after an instance's own dynamic property (not a DYNPROP_PROTREF slot)
\* is deleted while its prototype holds a slot of exactly that name that is
\* not deleted, the next get_id of the name succeeds under every case rule;
\* under a case-sensitive one it answers the original identifier, adds no
\* slot, leaves the slot flagged DYNPROP_PROTREF, and a GET on the identifier
\* answers what the prototype's slot holds at that time.
C37_DeletedOwnRefersToPrototype == DeletedOwnRefers(GrfdexValues)

(***************************************************************************)
(* Lookups that answer DISP_E_UNKNOWNNAME, checked under SpecDisp.         *)
(***************************************************************************)
\* Slot i of o matches name under the case rule of flags.
MatchesName(o, i, name, flags) ==
    IF fdexNameCaseInsensitive \in flags
    THEN wcsicmp(objs[o].props[i].name, name) = 0
    ELSE wcscmp(objs[o].props[i].name, name) = 0

\* Slot i of o is not deleted: it is not flagged DYNPROP_DELETED and, when it
\* refers to a slot of the prototype, that slot is not deleted either.
LiveSlot(o, i) ==
    /\ DYNPROP_DELETED \notin objs[o].props[i].flags
    /\ ~StaleProtRef(o, i)

\* r is what the lookup answered.
NotFoundOnlyIfNoLiveMatch(r, o, name, flags) ==
    r.hres = DISP_E_UNKNOWNNAME =>
       \A i \in 1..Len(objs[o].props) : ~(LiveSlot(o, i) /\ MatchesName(o, i, name, flags))

\* C38: get_dynamic_prop without fdexNameEnsure answers DISP_E_UNKNOWNNAME
\* only if no slot of the store that is not deleted matches the name under
\* the lookup's case rule; a deleted slot at a lower index whose name differs
\* only in letter case does not hide a live matching slot at a higher index.
C38_NotFoundOnlyIfNoLiveMatch ==
    \A o \in LiveObjs, name \in DynNames, flags \in CaseFlags :
        NotFoundOnlyIfNoLiveMatch(get_dynamic_prop(objs, o, name, flags), o, name, flags)

(***************************************************************************)
(* What every dynamic store keeps, checked under SpecDisp.                 *)
(***************************************************************************)
\* No slot of o carries DYNPROP_DELETED and DYNPROP_PROTREF at once.
NeverDeletedAndReference(o) ==
    \A i \in 1..Len(objs[o].props) :
        ~({DYNPROP_DELETED, DYNPROP_PROTREF} \subseteq objs[o].props[i].flags)

\* No two slots of o have the same name, compared character for character.
NamesDistinct(o) ==
    \A i, j \in 1..Len(objs[o].props) :
        i # j => wcscmp(objs[o].props[i].name, objs[o].props[j].name) # 0

\* Every DYNPROP_PROTREF slot of o carries the index of a slot that the
\* prototype of o has; V_UI4(var) counts from 0, the model's indices from 1.
ReferencesInRange(o) ==
    \A i \in 1..Len(objs[o].props) :
        DYNPROP_PROTREF \in objs[o].props[i].flags =>
            /\ objs[o].prototype # NoObj
            /\ objs[o].props[i].var.val \in 1..Len(objs[objs[o].prototype].props)

AgreesWithSigned(p1, p2) ==
    /\ dispid_cmp(p1, p2) < 0 <=> p1.id < p2.id
    /\ dispid_cmp(p1, p2) = 0 <=> p1.id = p2.id
    /\ dispid_cmp(p1, p2) > 0 <=> p1.id > p2.id

ComparatorAgrees(funcs) ==
    \A i, j \in 1..Len(funcs) : AgreesWithSigned(funcs[i], funcs[j])

\* C40: for every pair of members of a published table dispid_cmp has the
\* sign of the signed comparison of their 32-bit identifiers, and the table
\* the sort left is in the increasing order the binary search of
\* get_builtin_func assumes.
C40_ComparatorIsSignedOrder ==
    \A s \in Slots :
        info_cache[s] # NullTable =>
            /\ ComparatorAgrees(info_cache[s].tbl.funcs)
            /\ StrictlySortedById(info_cache[s].tbl.funcs)

====
